---- MODULE Spec2Model ----
(***************************************************************************)
(* Document e-signature workflow gated by a comprehension quiz (app.py).   *)
(* The record store holds two tables, signatures and quizzes.  Every       *)
(* request handler is a coroutine on one event loop: the code between two  *)
(* awaits that really suspend runs atomically, and handlers of different   *)
(* requests interleave at those awaits.  In the handlers a notification is *)
(* one await that returns a boolean; send_webhook itself, with its retry   *)
(* loop, is modelled post by post in a specification of its own.  The      *)
(* scheduler runs its nightly job on the same event loop.                  *)
(***************************************************************************)
EXTENDS Integers, Sequences, FiniteSets, TLC

\* ------------------------------------------------------------------ bounds
\* signature requests created in one run (tracking ids drawn)
MaxSigs == 2
\* signature requests created in one run with handlers interleaved
MaxSigsConcurrent == 1
\* quizzes created in one run (quiz ids drawn)
MaxQuizzes == 2
\* request handlers in flight at the same time
MaxReqs == 2
\* submissions counted per quiz
MaxAttempts == 3
\* submissions counted over the stored quizzes in the runs with interleaved
\* handlers, and in the runs in which the days pass as well
MaxSubmissions == 2
MaxSubmissionsIntegrity == 1
\* midnights (00:00 Asia/Kolkata) that pass in one run
MaxTime == 1
\* ticks of the wall clock in one day: the different values the clock shows
\* on one day are that many
TicksPerDay == 2
\* the day of the month on which a run starts
StartDay == 10
\* the largest age in days an age purge is called with
MaxDays == 2
\* the largest page size and the largest offset a dashboard request asks for
MaxLimit == 2
MaxOffset == 2

\* ------------------------------------------------------- program constants
\* generate_quiz_questions(document_content, num_questions = 3)
NumQuestions == 3

\* send_webhook(payload, max_retries = 3)
max_retries == 3

\* --------------------------------------------------------------- values
\* Python's None for identifiers; an absent timestamp or number is <<>> and
\* a present one <<v>>
None == "None"
NoValue == <<>>
Some(v) == <<v>>

\* DocumentStatus
SENT == "sent"
ACKNOWLEDGED == "acknowledged"
QUIZ_PENDING == "quiz_pending"
QUIZ_FAILED == "quiz_failed"
COMPLETED == "completed"
DocumentStatus == {SENT, ACKNOWLEDGED, QUIZ_PENDING, QUIZ_FAILED, COMPLETED}

\* DOCUMENT_MAPPING: the fixed catalog
DOCUMENT_MAPPING == {"company_policy", "nda_policy", "dev_guidelines"}

\* document ids a send request is tried with: one of the catalog, one outside
\* it, and one outside it that is not made of lower-case letters and "_"
DocInputs == {"nda_policy", "no_such_doc", "no-such-doc"}
\* every id of the catalog, and one outside
CatalogInputs == DOCUMENT_MAPPING \cup {"no_such_doc"}

\* the characters of a document id, as code points
CodePoints(document_id) ==
    CASE document_id = "company_policy" ->
        <<99, 111, 109, 112, 97, 110, 121, 95, 112, 111, 108, 105, 99, 121>>
      [] document_id = "nda_policy" ->
        <<110, 100, 97, 95, 112, 111, 108, 105, 99, 121>>
      [] document_id = "dev_guidelines" ->
        <<100, 101, 118, 95, 103, 117, 105, 100, 101, 108, 105, 110, 101, 115>>
      [] document_id = "no_such_doc" ->
        <<110, 111, 95, 115, 117, 99, 104, 95, 100, 111, 99>>
      [] document_id = "no-such-doc" ->
        <<110, 111, 45, 115, 117, 99, 104, 45, 100, 111, 99>>

\* SendDocumentRequest.document_id: Field(..., pattern="^[a-z_]+$"), one or
\* more characters, each of them "a".."z" or "_"
MatchesPattern(document_id) ==
    LET s == CodePoints(document_id)
    IN  /\ Len(s) >= 1
        /\ \A i \in 1..Len(s) : s[i] \in (97..122) \cup {95}

\* load_document: the title is the first line of the file
DocTitle(document_id) == "title of " \o document_id

\* load_document before its await: the id is in the catalog and
\* os.path.exists(file_path) is true; present is what os.path.exists answers
\* at this call
DocumentExists(document_id, present) ==
    document_id \in DOCUMENT_MAPPING /\ present

\* mutant: every request gets the same tracking id
TrackingIdOf_Reused(n) == "t1"

\* str(uuid.uuid4()): the n-th identifier drawn is fresh
TrackingIdOf(n) == "t" \o ToString(n)
QuizIdOf(n) == "k" \o ToString(n)

\* identifiers a request may name: every id that can exist, and one that never does
TrackingInputs == {TrackingIdOf(n) : n \in 1..MaxSigs} \cup {"t_unknown"}
QuizInputs == {QuizIdOf(n) : n \in 1..MaxQuizzes} \cup {"k_unknown"}

\* ------------------------------------------------------ question generator
\* QuizQuestion(id, question, options, correct_answer)
QuizQuestion(id, question, options, correct_answer) ==
    [id |-> id, question |-> question, options |-> options,
     correct_answer |-> correct_answer]

\* get_fallback_questions
get_fallback_questions ==
    << QuizQuestion("q1", "What is the main purpose of this document?",
           << "To provide guidelines", "To establish rules",
              "To inform about policies", "All of the above" >>,
           "All of the above"),
       QuizQuestion("q2", "Who is required to follow these guidelines?",
           << "Only new employees", "Only management",
              "All employees", "External contractors only" >>,
           "All employees"),
       QuizQuestion("q3", "When do these policies take effect?",
           << "Immediately upon acknowledgment", "After 30 days",
              "At the next review cycle", "Only for new projects" >>,
           "Immediately upon acknowledgment") >>

\* One element of the generator's JSON answer: a dict with some of the keys
\* question / options / correct_answer; typed says whether the values have the
\* types QuizQuestion declares (str, List[str], str).
RawQ(keys, question, options, correct_answer, typed) ==
    [keys |-> keys, question |-> question, options |-> options,
     correct_answer |-> correct_answer, typed |-> typed]

AllKeys == {"question", "options", "correct_answer"}
GoodQ(n) == RawQ(AllKeys, "Q" \o ToString(n), <<"A", "B", "C", "D">>, "A", TRUE)

\* What the OpenAI call can come back with: kind "raise" (the call or
\* json.loads raises), "dict" (an object with a 'questions' key), "list" (a
\* bare array), "other" (any other JSON value).
GenRaise == [kind |-> "raise", items |-> <<>>]
GenOther == [kind |-> "other", items |-> <<>>]
GenDictGood == [kind |-> "dict", items |-> <<GoodQ(1), GoodQ(2), GoodQ(3)>>]
GenListGood == [kind |-> "list", items |-> <<GoodQ(1), GoodQ(2), GoodQ(3)>>]
\* more than num_questions; the fourth lacks a key
GenListFour ==
    [kind |-> "list",
     items |-> <<GoodQ(1), GoodQ(2), GoodQ(3),
                 RawQ({"question"}, "Q4", <<>>, "", TRUE)>>]
GenListTwo == [kind |-> "list", items |-> <<GoodQ(1), GoodQ(2)>>]
GenMissingKey ==
    [kind |-> "list",
     items |-> <<GoodQ(1), RawQ({"question", "options"}, "Q2",
                                <<"A", "B", "C", "D">>, "", TRUE), GoodQ(3)>>]
GenBadType ==
    [kind |-> "list",
     items |-> <<GoodQ(1), GoodQ(2),
                 RawQ(AllKeys, "Q3", <<"A", "B", "C", "D">>, "A", FALSE)>>]
\* well-typed, complete, but: two options only; an answer that is no option;
\* an option listed twice
GenOddOptions ==
    [kind |-> "list",
     items |-> <<RawQ(AllKeys, "Q1", <<"A", "B">>, "A", TRUE),
                 RawQ(AllKeys, "Q2", <<"A", "B", "C", "D">>, "E", TRUE),
                 RawQ(AllKeys, "Q3", <<"A", "A", "B", "C">>, "B", TRUE)>>]

GenOutcomes ==
    {GenRaise, GenOther, GenDictGood, GenListGood, GenListFour, GenListTwo,
     GenMissingKey, GenBadType, GenOddOptions}

\* questions_list[:num_questions]
Prefix(s, n) == SubSeq(s, 1, IF Len(s) < n THEN Len(s) ELSE n)

\* q['question'], q['options'], q['correct_answer'] raise KeyError on a missing
\* key and QuizQuestion(...) raises ValidationError on a wrongly typed value
ConvertRaises(q) == ~(AllKeys \subseteq q.keys) \/ ~q.typed

\* the loop over enumerate(questions_list[:num_questions])
ConvertQuestions(items) ==
    [idx \in 1..Len(items) |->
        QuizQuestion("q" \o ToString(idx), items[idx].question,
                     items[idx].options, items[idx].correct_answer)]

\* generate_quiz_questions(document_content, num_questions)
generate_quiz_questions(gen, num_questions) ==
    IF gen.kind = "raise"
    THEN Prefix(get_fallback_questions, num_questions)
    ELSE LET questions_list == IF gen.kind \in {"dict", "list"}
                               THEN gen.items ELSE <<>>
             taken == Prefix(questions_list, num_questions)
         IN  IF \E i \in 1..Len(taken) : ConvertRaises(taken[i])
             THEN Prefix(get_fallback_questions, num_questions)
             ELSE IF Len(taken) < num_questions
                  THEN Prefix(get_fallback_questions, num_questions)
                  ELSE ConvertQuestions(taken)

\* ------------------------------------------------------------- grading
\* mutant: a missing key reads as the first answer given
AnswerGet_Default(answers, id) ==
    IF id \in DOMAIN answers THEN Some(answers[id])
    ELSE IF DOMAIN answers = {} THEN NoValue
    ELSE Some(answers[CHOOSE k \in DOMAIN answers : TRUE])

\* submission.answers.get(question_id): None when the key is absent
AnswerGet(answers, id) ==
    IF id \in DOMAIN answers THEN Some(answers[id]) ELSE NoValue

\* the loop of submit_quiz over quiz["questions"], from question i on
RECURSIVE CountCorrect(_, _, _)
CountCorrect(questions, answers, i) ==
    IF i > Len(questions) THEN 0
    ELSE (IF AnswerGet(answers, questions[i].id) = Some(questions[i].correct_answer)
          THEN 1 ELSE 0) + CountCorrect(questions, answers, i + 1)

\* correct_count after the loop
correct_count(questions, answers) == CountCorrect(questions, answers, 1)

\* passed = correct_count == total_questions
Passed(correct, total) == correct = total

\* f"{correct_count}/{total_questions}"
Score(correct, total) == ToString(correct) \o "/" \o ToString(total)

\* ------------------------------------------------------------- requests
\* SendDocumentRequest: one sender and one receiver, the document id varies
SendDocumentRequest(document_id) ==
    [sender_email |-> "sender@company.com", sender_name |-> "Sender",
     purpose |-> "review", receiver_email |-> "receiver@example.com",
     document_id |-> document_id]

\* SignatureSubmission: acknowledged is any boolean
SignatureSubmission(acknowledged) ==
    [acknowledged |-> acknowledged, date |-> "2024-01-01",
     location |-> "office", name |-> "Receiver"]

\* QuizSubmission.answers: Dict[str, str]
Qids == {"q1", "q2", "q3"}
AnswersAll(a) == [id \in Qids |-> a]
\* every question answered "A"; the third answered "B"; the answers A, E, B;
\* the fallback set's correct answers; q3 not answered; a key of no question
AnswerMaps ==
    { AnswersAll("A"),
      [AnswersAll("A") EXCEPT !["q3"] = "B"],
      [AnswersAll("A") EXCEPT !["q2"] = "E", !["q3"] = "B"],
      [id \in Qids |-> get_fallback_questions[
                          CHOOSE i \in 1..3 : get_fallback_questions[i].id = id
                       ].correct_answer],
      [id \in {"q1", "q2"} |-> "A"],
      [id \in Qids \cup {"q4"} |-> "A"] }

\* ---------------------------------------------------------------- state
VARIABLES
    signatures,   \* signatures_table: the records in insertion order
    quizzes,      \* quizzes_table: the records in insertion order
    req,          \* the request handlers in flight, by slot
    now,          \* the wall clock, in ticks since the midnight of the start
    nTid,         \* tracking ids drawn so far
    nQid,         \* quiz ids drawn so far
    submissions   \* per stored quiz, the submit_quiz calls that found it so far

vars == <<signatures, quizzes, req, now, nTid, nQid, submissions>>

Slots == 1..MaxReqs
\* one handler at a time: every request is answered before the next arrives
OneSlot == {1}

\* no response produced yet
NoResponse == [code |-> 0]
\* HTTPException(status_code=404) / an exception FastAPI turns into a 500
NotFound == [code |-> 404]
\* RequestValidationError: the body does not fit the request model
ValidationError == [code |-> 422]
ServerError == [code |-> 500]
\* ApiResponse(success=True, data=...)
Ok(data) == [code |-> 200, data |-> data]

\* a slot with no handler running
Idle ==
    [op |-> "idle", pc |-> "idle", arg |-> None, submission |-> <<>>,
     signature |-> NoValue, quiz |-> NoValue, quiz_id |-> None,
     correct_count |-> 0, total_questions |-> 0, passed |-> FALSE,
     email_sent |-> FALSE, sent |-> <<>>, resp |-> NoResponse]

\* ------------------------------------------------------------ timestamps
\* datetime.isoformat(): a string "YYYY-MM-DDTHH:MM:SS.ffffff+00:00"; kept are
\* the zero-padded day, the "T" and the time of day, zero-padded, in ticks
\* (year and month are the same in every string of a run), as code points.
\* The days are counted from 00:00 Asia/Kolkata, the time of the nightly job.
isoformat(t) ==
    LET day == StartDay + (t \div TicksPerDay)
        tod == t % TicksPerDay
    IN  <<48 + (day \div 10), 48 + (day % 10), 84,
          48 + (tod \div 10), 48 + (tod % 10)>>

\* n calls of datetime.now() in one step: each gives the value the clock had
\* at the call before (the last one of the step before, for the first) or a
\* later one, so two readings can be the same string and a later one is
\* never less; the readings of a step are of one day.  Counted are the
\* readings that go into a record or a cutoff.
ClockReads(n) ==
    LET last == ((now \div TicksPerDay) + 1) * TicksPerDay - 1
    IN  {t \in [1..n -> now..last] :
            \A i \in 1..n : t[i] >= (IF i = 1 THEN now ELSE t[i - 1])}

\* Python's str < str: the code points at the first position where the
\* strings differ decide; a proper prefix is less
RECURSIVE StrLessFrom(_, _, _)
StrLessFrom(a, b, i) ==
    IF i > Len(a) THEN i <= Len(b)
    ELSE IF i > Len(b) THEN FALSE
    ELSE IF a[i] # b[i] THEN a[i] < b[i]
    ELSE StrLessFrom(a, b, i + 1)

StrLess(a, b) == StrLessFrom(a, b, 1)

\* ------------------------------------------------------------ record store
\* table.get(field == value): the first matching record (Some), or None (NoValue)
RECURSIVE FirstIndex(_, _, _, _)
FirstIndex(table, field, value, i) ==
    IF i > Len(table) THEN 0
    ELSE IF table[i][field] = value THEN i
    ELSE FirstIndex(table, field, value, i + 1)

TableGet(table, field, value) ==
    LET i == FirstIndex(table, field, value, 1)
    IN  IF i = 0 THEN NoValue ELSE Some(table[i])

\* table.update(fields, field == value): merges fields into every match
Merge(rec, fields) ==
    [k \in DOMAIN rec |-> IF k \in DOMAIN fields THEN fields[k] ELSE rec[k]]

\* mutant: the update is applied to every record of the table
TableUpdate_EveryRecord(table, fields, field, value) ==
    [i \in 1..Len(table) |-> Merge(table[i], fields)]

TableUpdate(table, fields, field, value) ==
    [i \in 1..Len(table) |->
        IF table[i][field] = value THEN Merge(table[i], fields) ELSE table[i]]

\* mutant: the insert replaces the records of the same tracking id
TableInsert_Upsert(table, record) ==
    Append(SelectSeq(table, LAMBDA x : x.tracking_id # record.tracking_id), record)

\* table.insert(record)
TableInsert(table, record) == Append(table, record)

\* mutant: the comparison with the cutoff is <=
RECURSIVE SelectOlder_Inclusive(_, _, _)
SelectOlder_Inclusive(table, cutoff, keepOlder) ==
    IF table = <<>> THEN <<>>
    ELSE LET rest == SelectOlder_Inclusive(Tail(table), cutoff, keepOlder)
         IN  IF (~StrLess(cutoff, Head(table).created_at)) = keepOlder
             THEN <<Head(table)>> \o rest ELSE rest

\* table.search(created_at < cutoff) / table.remove(created_at < cutoff)
RECURSIVE SelectOlder(_, _, _)
SelectOlder(table, cutoff, keepOlder) ==
    IF table = <<>> THEN <<>>
    ELSE LET rest == SelectOlder(Tail(table), cutoff, keepOlder)
         IN  IF StrLess(Head(table).created_at, cutoff) = keepOlder
             THEN <<Head(table)>> \o rest ELSE rest

TableSearchOlder(table, cutoff) == SelectOlder(table, cutoff, TRUE)
TableRemoveOlder(table, cutoff) == SelectOlder(table, cutoff, FALSE)

\* ------------------------------------------------------------- records
\* signature_record of send_document
SignatureRecord(tracking_id, request, created_at, updated_at) ==
    [tracking_id |-> tracking_id,
     document_id |-> request.document_id,
     document_title |-> DocTitle(request.document_id),
     sender_email |-> request.sender_email,
     sender_name |-> request.sender_name,
     receiver_email |-> request.receiver_email,
     purpose |-> request.purpose,
     status |-> SENT,
     created_at |-> created_at,
     updated_at |-> updated_at,
     acknowledged |-> FALSE,
     quiz_id |-> None,
     quiz_passed |-> FALSE,
     completed_at |-> NoValue,
     \* keys the record gets on acknowledge
     acknowledgment_date |-> None,
     acknowledgment_location |-> None,
     signer_name |-> None]

\* quiz_record of submit_signature
QuizRecord(quiz_id, tracking_id, questions, t) ==
    [quiz_id |-> quiz_id,
     tracking_id |-> tracking_id,
     questions |-> questions,
     created_at |-> t,
     attempts |-> 0,
     passed |-> FALSE,
     \* keys the record gets on the first submission
     last_attempt |-> NoValue,
     last_score |-> NoValue]

\* mutant: the update leaves quiz_id out
AcknowledgeFields_NoQuizId(submission, quiz_id, t) ==
    [acknowledged |-> submission.acknowledged,
     acknowledgment_date |-> submission.date,
     acknowledgment_location |-> submission.location,
     signer_name |-> submission.name,
     status |-> QUIZ_PENDING,
     updated_at |-> t]

\* mutant: the update sets the status and leaves the quiz id for a later write
AcknowledgeFields_QuizIdLater(submission, quiz_id, t) ==
    [acknowledged |-> submission.acknowledged,
     acknowledgment_date |-> submission.date,
     acknowledgment_location |-> submission.location,
     signer_name |-> submission.name,
     status |-> QUIZ_PENDING,
     quiz_id |-> None,
     updated_at |-> t]

\* mutant: the update stores the status ACKNOWLEDGED
AcknowledgeFields_Acknowledged(submission, quiz_id, t) ==
    [acknowledged |-> submission.acknowledged,
     acknowledgment_date |-> submission.date,
     acknowledgment_location |-> submission.location,
     signer_name |-> submission.name,
     status |-> ACKNOWLEDGED,
     quiz_id |-> quiz_id,
     updated_at |-> t]

\* the fields submit_signature writes to the signature
AcknowledgeFields(submission, quiz_id, t) ==
    [acknowledged |-> submission.acknowledged,
     acknowledgment_date |-> submission.date,
     acknowledgment_location |-> submission.location,
     signer_name |-> submission.name,
     status |-> QUIZ_PENDING,
     quiz_id |-> quiz_id,
     updated_at |-> t]

\* mutant: a quiz takes two submissions, a third one is not recorded
QuizOutcomeFields_Capped(quiz, passed, correct, t) ==
    IF quiz.attempts >= 2
    THEN [attempts |-> quiz.attempts, passed |-> quiz.passed]
    ELSE [attempts |-> quiz.attempts + 1,
          passed |-> passed,
          last_attempt |-> Some(t),
          last_score |-> Some(correct)]

\* mutant: a quiz that was passed once stays passed
QuizOutcomeFields_Cumulative(quiz, passed, correct, t) ==
    [attempts |-> quiz.attempts + 1,
     passed |-> quiz.passed \/ passed,
     last_attempt |-> Some(t),
     last_score |-> Some(correct)]

\* the fields submit_quiz writes to the quiz
QuizOutcomeFields(quiz, passed, correct, t) ==
    [attempts |-> quiz.attempts + 1,
     passed |-> passed,
     last_attempt |-> Some(t),
     last_score |-> Some(correct)]

\* mutant: the passing update sets the status only
CompletedFields_StatusOnly(completed_at, updated_at) ==
    [status |-> COMPLETED, updated_at |-> updated_at]

\* the fields submit_quiz writes to the signature when the quiz is passed
CompletedFields(completed_at, updated_at) ==
    [status |-> COMPLETED, quiz_passed |-> TRUE,
     completed_at |-> Some(completed_at), updated_at |-> updated_at]

\* mutant: the failing update clears the flag and leaves the status
FailedFields_FlagOnly == [quiz_passed |-> FALSE]

\* mutant: a failed quiz sends the signature back to SENT
FailedFields_BackToSent == [status |-> SENT]

\* the fields submit_quiz writes to the signature when the quiz is failed
FailedFields == [status |-> QUIZ_FAILED]

\* ------------------------------------------------------------ notifier
\* mutant: every payload has the same kind
Event_OneKind(event_type, to) == [event_type |-> "notification", to |-> to]

\* one payload handed to send_webhook; the handlers use its boolean result
\* (email_sent, delivered below) for logging only
Event(event_type, to) == [event_type |-> event_type, to |-> to]

\* ------------------------------------------------------------- actions
Start(op, arg, submission) ==
    [Idle EXCEPT !.op = op, !.pc = "start", !.arg = arg, !.submission = submission]

\* send_document handlers that are past load_document and have not drawn
\* their tracking id yet
Loading ==
    Cardinality({s \in DOMAIN req :
                    req[s].op = "send_document" /\ req[s].pc = "loaded"})

\* send_document up to the await inside load_document: 422 before the
\* handler is entered for a document id that does not fit the request model,
\* 404 for an id outside the catalog or one whose file is not in place
SendDocument(r, document_id, present) ==
    /\ req[r].pc = "idle"
    /\ LET request == SendDocumentRequest(document_id)
           h == Start("send_document", document_id, request)
       IN  IF ~MatchesPattern(document_id)
           THEN req' = [req EXCEPT ![r] =
                          [h EXCEPT !.pc = "done", !.resp = ValidationError]]
           ELSE IF ~DocumentExists(document_id, present)
           THEN req' = [req EXCEPT ![r] = [h EXCEPT !.pc = "done", !.resp = NotFound]]
           ELSE /\ nTid + Loading < MaxSigs
                /\ req' = [req EXCEPT ![r] = [h EXCEPT !.pc = "loaded"]]
    /\ UNCHANGED <<signatures, quizzes, now, nTid, nQid, submissions>>

\* send_document from load_document to the await of
\* send_signature_request_email: the tracking id is drawn, the clock is read
\* for created_at and again for updated_at, the record is inserted
SendDocumentInsert(r) ==
    /\ req[r].op = "send_document" /\ req[r].pc = "loaded"
    /\ nTid < MaxSigs
    /\ \E t \in ClockReads(2) :
        LET tracking_id == TrackingIdOf(nTid + 1)
        IN  /\ signatures' = TableInsert(signatures,
                                SignatureRecord(tracking_id, req[r].submission,
                                                isoformat(t[1]), isoformat(t[2])))
            /\ now' = t[2]
            /\ nTid' = nTid + 1
            /\ req' = [req EXCEPT ![r] = [@ EXCEPT !.pc = "notify", !.arg = tracking_id]]
    /\ UNCHANGED <<quizzes, nQid, submissions>>

\* mutant: a notification that was not delivered fails the request
SendDocumentResponse_Propagates(tracking_id, email_sent) ==
    IF email_sent THEN Ok([tracking_id |-> tracking_id, status |-> SENT])
    ELSE ServerError

\* send_document's response: a failed notification is logged
\* (if not email_sent: logger.warning) and the response is the same
SendDocumentResponse(tracking_id, email_sent) ==
    Ok([tracking_id |-> tracking_id, status |-> SENT])

\* send_document from the return of send_webhook (delivered or not) to the response
SendDocumentNotify(r, email_sent) ==
    /\ req[r].op = "send_document" /\ req[r].pc = "notify"
    /\ req' = [req EXCEPT ![r] =
                 [@ EXCEPT !.pc = "done",
                           !.email_sent = email_sent,
                           !.sent = Append(@, Event("signature_request",
                                                    req[r].submission.receiver_email)),
                           !.resp = SendDocumentResponse(req[r].arg, email_sent)]]
    /\ UNCHANGED <<signatures, quizzes, now, nTid, nQid, submissions>>

\* submit_signature up to the await inside load_document: the read of the
\* signature (404 when there is none), then load_document's checks (404 when
\* the file of the signature's document is not in place)
SubmitSignatureRead(r, tracking_id, acknowledged, present) ==
    /\ req[r].pc = "idle"
    /\ LET h == Start("submit_signature", tracking_id,
                      SignatureSubmission(acknowledged))
           signature == TableGet(signatures, "tracking_id", tracking_id)
       IN  IF signature = NoValue
           THEN req' = [req EXCEPT ![r] = [h EXCEPT !.pc = "done", !.resp = NotFound]]
           ELSE IF ~DocumentExists(signature[1].document_id, present)
           THEN req' = [req EXCEPT ![r] = [h EXCEPT !.pc = "done", !.resp = NotFound]]
           ELSE req' = [req EXCEPT ![r] = [h EXCEPT !.pc = "loaded", !.signature = signature]]
    /\ UNCHANGED <<signatures, quizzes, now, nTid, nQid, submissions>>

\* submit_signature from load_document to the await of send_quiz_link_email:
\* the generator call, the insert of the quiz (the clock is read for its
\* created_at) and the update of the signature (read again for updated_at)
SubmitSignatureWrite(r, gen) ==
    /\ req[r].op = "submit_signature" /\ req[r].pc = "loaded"
    /\ nQid < MaxQuizzes
    /\ \E t \in ClockReads(2) :
        LET questions == generate_quiz_questions(gen, NumQuestions)
            quiz_id == QuizIdOf(nQid + 1)
        IN  /\ quizzes' = TableInsert(quizzes,
                             QuizRecord(quiz_id, req[r].arg, questions, isoformat(t[1])))
            /\ signatures' = TableUpdate(signatures,
                                AcknowledgeFields(req[r].submission, quiz_id,
                                                  isoformat(t[2])),
                                "tracking_id", req[r].arg)
            /\ now' = t[2]
            /\ nQid' = nQid + 1
            /\ req' = [req EXCEPT ![r] = [@ EXCEPT !.pc = "notify", !.quiz_id = quiz_id]]
    /\ UNCHANGED <<nTid, submissions>>

\* submit_signature from the return of send_webhook to the response
SubmitSignatureNotify(r, email_sent) ==
    /\ req[r].op = "submit_signature" /\ req[r].pc = "notify"
    /\ req' = [req EXCEPT ![r] =
                 [@ EXCEPT !.pc = "done", !.signature = NoValue,
                           !.sent = Append(@, Event("quiz_link",
                                                    req[r].signature[1].receiver_email)),
                           !.resp = Ok([quiz_id |-> req[r].quiz_id])]]
    /\ UNCHANGED <<signatures, quizzes, now, nTid, nQid, submissions>>

\* submit_quiz up to the await inside send_completion_email: the read of the
\* quiz, the grading, the update of the quiz and the update of the signature.
\* signature["receiver_email"] raises TypeError when no signature has this quiz_id.
\* The clock is read for last_attempt and, when the quiz is passed, again for
\* completed_at and for updated_at.
SubmitQuizGrade(r, quiz_id, answers) ==
    /\ req[r].pc = "idle"
    /\ LET h == Start("submit_quiz", quiz_id, answers)
           found == TableGet(quizzes, "quiz_id", quiz_id)
       IN  IF found = NoValue
           THEN /\ req' = [req EXCEPT ![r] = [h EXCEPT !.pc = "done", !.resp = NotFound]]
                /\ UNCHANGED <<signatures, quizzes, now, submissions>>
           ELSE \E t \in ClockReads(IF Passed(correct_count(found[1].questions, answers),
                                              Len(found[1].questions))
                                    THEN 3 ELSE 1) :
                LET quiz == found[1]
                    correct == correct_count(quiz.questions, answers)
                    total == Len(quiz.questions)
                    passed == Passed(correct, total)
                    updated == TableUpdate(signatures,
                                   IF passed
                                   THEN CompletedFields(isoformat(t[2]),
                                                        isoformat(t[3]))
                                   ELSE FailedFields,
                                   "quiz_id", quiz_id)
                    \* read before the update when passed, after it when failed
                    signature == IF passed
                                 THEN TableGet(signatures, "quiz_id", quiz_id)
                                 ELSE TableGet(updated, "quiz_id", quiz_id)
                    g == [h EXCEPT !.quiz = found, !.correct_count = correct,
                                   !.total_questions = total, !.passed = passed,
                                   !.signature = signature]
                IN  /\ quiz.attempts < MaxAttempts
                    /\ now' = t[IF passed THEN 3 ELSE 1]
                    /\ quizzes' = TableUpdate(quizzes,
                                     QuizOutcomeFields(quiz, passed, correct, isoformat(t[1])),
                                     "quiz_id", quiz_id)
                    /\ signatures' = updated
                    /\ submissions' = [submissions EXCEPT ![quiz_id] = @ + 1]
                    /\ req' = [req EXCEPT ![r] =
                                 IF signature = NoValue
                                 THEN [g EXCEPT !.pc = "done", !.quiz = NoValue,
                                                !.resp = ServerError]
                                 ELSE [g EXCEPT !.pc = "notify"]]
    /\ UNCHANGED <<nTid, nQid>>

\* the data of submit_quiz's response
QuizResult(h) ==
    [passed |-> h.passed,
     score |-> Score(h.correct_count, h.total_questions),
     attempts |-> h.quiz[1].attempts + 1]

\* send_completion_email: each return of send_webhook, then the response
SubmitQuizNotify(r, delivered) ==
    /\ req[r].op = "submit_quiz"
    /\ \/ /\ req[r].pc = "notify" /\ req[r].passed
          /\ req' = [req EXCEPT ![r] =
                       [@ EXCEPT !.pc = "notify_sender",
                                 !.sent = Append(@, Event("signature_completed",
                                              req[r].signature[1].receiver_email))]]
       \/ /\ req[r].pc = "notify_sender"
          /\ req' = [req EXCEPT ![r] =
                       [@ EXCEPT !.pc = "done", !.signature = NoValue, !.quiz = NoValue,
                                 !.sent = Append(@, Event("signature_completed_notification",
                                              req[r].signature[1].sender_email)),
                                 !.resp = Ok(QuizResult(req[r]))]]
       \/ /\ req[r].pc = "notify" /\ ~req[r].passed
          /\ req' = [req EXCEPT ![r] =
                       [@ EXCEPT !.pc = "done", !.signature = NoValue, !.quiz = NoValue,
                                 !.sent = Append(@, Event("quiz_failed",
                                              req[r].signature[1].receiver_email)),
                                 !.resp = Ok(QuizResult(req[r]))]]
    /\ UNCHANGED <<signatures, quizzes, now, nTid, nQid, submissions>>

\* ------------------------------------------------- send_webhook in detail
\* What one client.post can end with: a response with a status code, a
\* httpx.TimeoutException, or any other exception (a transport error).
Status(code) == [kind |-> "status", code |-> code]
Timeout == [kind |-> "timeout", code |-> 0]
TransportError == [kind |-> "error", code |-> 0]
StatusCodes == {200, 201, 202, 204, 302, 404, 500, 503}
Outcomes == {Status(c) : c \in StatusCodes} \cup {Timeout, TransportError}

\* the endpoint, as the outcomes of its first, second and third post
Endpoints == [1..max_retries -> Outcomes]

\* payloads handed to send_webhook
Payloads ==
    {Event("signature_request", "receiver@example.com"),
     Event("quiz_link", "receiver@example.com"),
     Event("scheduled_cleanup", None)}

\* a call of send_webhook: attempt is the loop variable, posts the number of
\* client.post calls made, sleeps the number of asyncio.sleep calls made,
\* result the value returned (read when pc is "done"); pc "raised" is a call
\* that ended by raising to its caller
WebhookCall(payload, endpoint) ==
    [op |-> "send_webhook", pc |-> "post", payload |-> payload,
     endpoint |-> endpoint, attempt |-> 0, posts |-> 0, sleeps |-> 0,
     result |-> FALSE]

\* mutant: an exception of client.post other than a timeout is not caught
WebhookStep_Propagates(outcome, attempt) ==
    IF outcome.kind = "status"
    THEN IF outcome.code \in {200, 201, 202}
         THEN [pc |-> "done", result |-> TRUE]
         ELSE IF outcome.code >= 500
              THEN [pc |-> "sleep", result |-> FALSE]
              ELSE [pc |-> "done", result |-> FALSE]
    ELSE IF outcome.kind = "timeout"
         THEN IF attempt < max_retries - 1
              THEN [pc |-> "sleep", result |-> FALSE]
              ELSE [pc |-> "done", result |-> FALSE]
         ELSE [pc |-> "raised", result |-> FALSE]

\* mutant: every error status is retried, 4xx included
WebhookStep_RetryClientErrors(outcome, attempt) ==
    IF outcome.kind = "status"
    THEN IF outcome.code \in {200, 201, 202}
         THEN [pc |-> "done", result |-> TRUE]
         ELSE IF outcome.code >= 400
              THEN [pc |-> "sleep", result |-> FALSE]
              ELSE [pc |-> "done", result |-> FALSE]
    ELSE IF outcome.kind = "timeout"
         THEN IF attempt < max_retries - 1
              THEN [pc |-> "sleep", result |-> FALSE]
              ELSE [pc |-> "done", result |-> FALSE]
         ELSE [pc |-> "done", result |-> FALSE]

\* the body of the loop of send_webhook after client.post ended with outcome:
\* return True, return False, or go to asyncio.sleep
WebhookStep(outcome, attempt) ==
    IF outcome.kind = "status"
    THEN IF outcome.code \in {200, 201, 202}
         THEN [pc |-> "done", result |-> TRUE]
         ELSE IF outcome.code >= 500
              THEN [pc |-> "sleep", result |-> FALSE]
              ELSE [pc |-> "done", result |-> FALSE]
    ELSE IF outcome.kind = "timeout"
         THEN IF attempt < max_retries - 1
              THEN [pc |-> "sleep", result |-> FALSE]
              ELSE [pc |-> "done", result |-> FALSE]
         ELSE [pc |-> "done", result |-> FALSE]

\* send_webhook is called and reaches its first await client.post
WebhookStart(r, payload, endpoint) ==
    /\ req[r].pc = "idle"
    /\ req' = [req EXCEPT ![r] = WebhookCall(payload, endpoint)]
    /\ UNCHANGED <<signatures, quizzes, now, nTid, nQid, submissions>>

\* await client.post ends with the endpoint's next outcome
WebhookPost(r) ==
    /\ req[r].op = "send_webhook" /\ req[r].pc = "post"
    /\ LET outcome == req[r].endpoint[req[r].posts + 1]
           step == WebhookStep(outcome, req[r].attempt)
       IN  req' = [req EXCEPT ![r] =
                     [@ EXCEPT !.posts = @ + 1, !.pc = step.pc,
                               !.sleeps = IF step.pc = "sleep" THEN @ + 1 ELSE @,
                               !.result = step.result]]
    /\ UNCHANGED <<signatures, quizzes, now, nTid, nQid, submissions>>

\* await asyncio.sleep ends: the next iteration of the loop, or the return
\* False after it
WebhookSleep(r) ==
    /\ req[r].op = "send_webhook" /\ req[r].pc = "sleep"
    /\ req' = [req EXCEPT ![r] =
                 [@ EXCEPT !.attempt = @ + 1,
                           !.pc = IF req[r].attempt + 1 < max_retries
                                  THEN "post" ELSE "done"]]
    /\ UNCHANGED <<signatures, quizzes, now, nTid, nQid, submissions>>

\* get_signature_status up to the await inside load_document: the read of
\* the signature (404 when there is none), then load_document's checks
GetSignatureStatusRead(r, tracking_id, present) ==
    /\ req[r].pc = "idle"
    /\ LET h == Start("get_signature_status", tracking_id, <<>>)
           signature == TableGet(signatures, "tracking_id", tracking_id)
       IN  IF signature = NoValue
           THEN req' = [req EXCEPT ![r] = [h EXCEPT !.pc = "done", !.resp = NotFound]]
           ELSE IF ~DocumentExists(signature[1].document_id, present)
           THEN req' = [req EXCEPT ![r] = [h EXCEPT !.pc = "done", !.resp = NotFound]]
           ELSE req' = [req EXCEPT ![r] = [h EXCEPT !.pc = "loaded", !.signature = signature]]
    /\ UNCHANGED <<signatures, quizzes, now, nTid, nQid, submissions>>

\* get_signature_status from load_document to the response: the record as it
\* was read and the document
GetSignatureStatusRespond(r) ==
    /\ req[r].op = "get_signature_status" /\ req[r].pc = "loaded"
    /\ req' = [req EXCEPT ![r] =
                 [@ EXCEPT !.pc = "done", !.signature = NoValue,
                           !.resp = Ok([signature |-> req[r].signature[1],
                                        document |-> DocTitle(
                                            req[r].signature[1].document_id)])]]
    /\ UNCHANGED <<signatures, quizzes, now, nTid, nQid, submissions>>

\* mutant: the stored questions are sent as they are
HideAnswers_Leaks(questions) == questions

\* get_quiz: the questions without their correct answers
HideAnswers(questions) ==
    [i \in 1..Len(questions) |->
        [id |-> questions[i].id, question |-> questions[i].question,
         options |-> questions[i].options]]

\* get_quiz: no await inside
GetQuiz(r, quiz_id) ==
    /\ req[r].pc = "idle"
    /\ LET h == Start("get_quiz", quiz_id, <<>>)
           quiz == TableGet(quizzes, "quiz_id", quiz_id)
       IN  req' = [req EXCEPT ![r] =
                     IF quiz = NoValue
                     THEN [h EXCEPT !.pc = "done", !.resp = NotFound]
                     ELSE [h EXCEPT !.pc = "done",
                                    !.resp = Ok([quiz_id |-> quiz_id,
                                                 questions |-> HideAnswers(quiz[1].questions),
                                                 attempts |-> quiz[1].attempts])]]
    /\ UNCHANGED <<signatures, quizzes, now, nTid, nQid, submissions>>

\* list.sort(key = created_at, reverse = True): a stable sort, newest first;
\* records with equal keys keep the order of the table
RECURSIVE InsertNewestFirst(_, _)
InsertNewestFirst(sorted, x) ==
    IF sorted = <<>> THEN <<x>>
    ELSE IF StrLess(Head(sorted).created_at, x.created_at) THEN <<x>> \o sorted
    ELSE <<Head(sorted)>> \o InsertNewestFirst(Tail(sorted), x)

RECURSIVE SortNewestFirstFrom(_, _, _)
SortNewestFirstFrom(table, i, sorted) ==
    IF i > Len(table) THEN sorted
    ELSE SortNewestFirstFrom(table, i + 1, InsertNewestFirst(sorted, table[i]))

\* mutant: the dashboard lists the records in the order of the table
SortNewestFirst_TableOrder(table) == table

SortNewestFirst(table) == SortNewestFirstFrom(table, 1, <<>>)

\* all_signatures[offset:offset + limit]
Slice(list, offset, limit) ==
    LET last == IF offset + limit < Len(list) THEN offset + limit ELSE Len(list)
    IN  IF offset >= last THEN <<>> ELSE SubSeq(list, offset + 1, last)

\* get_dashboard: no await inside
GetDashboard(r, limit, offset) ==
    /\ req[r].pc = "idle"
    /\ LET all_signatures == SortNewestFirst(signatures)
           paginated == Slice(all_signatures, offset, limit)
       IN  req' = [req EXCEPT ![r] =
                     [Start("get_dashboard", None, <<>>) EXCEPT
                         !.pc = "done",
                         !.resp = Ok([signatures |-> paginated,
                                      total |-> Len(all_signatures),
                                      limit |-> limit,
                                      offset |-> offset])]]
    /\ UNCHANGED <<signatures, quizzes, now, nTid, nQid, submissions>>

\* the count of submissions is kept for the quizzes still stored (a quiz id is
\* never drawn twice, so a removed quiz does not come back)
Forget(count, kept) ==
    [q \in DOMAIN count |->
        IF \E i \in 1..Len(kept) : kept[i].quiz_id = q THEN count[q] ELSE 0]

\* mutant: only the quizzes are truncated
ClearAllData_QuizzesOnly(r) ==
    /\ req[r].pc = "idle"
    /\ signatures' = signatures
    /\ quizzes' = <<>>
    /\ submissions' = Forget(submissions, <<>>)
    /\ req' = [req EXCEPT ![r] =
                 [Start("clear_all_data", None, <<>>) EXCEPT
                     !.pc = "done",
                     !.resp = Ok([signatures_cleared |-> 0,
                                  quizzes_cleared |-> Len(quizzes)])]]
    /\ UNCHANGED <<now, nTid, nQid>>

\* clear_all_signature_data, called by clear_all_data_endpoint: no await inside
ClearAllData(r) ==
    /\ req[r].pc = "idle"
    /\ signatures' = <<>>
    /\ quizzes' = <<>>
    /\ submissions' = Forget(submissions, <<>>)
    /\ req' = [req EXCEPT ![r] =
                 [Start("clear_all_data", None, <<>>) EXCEPT
                     !.pc = "done",
                     !.resp = Ok([signatures_cleared |-> Len(signatures),
                                  quizzes_cleared |-> Len(quizzes)])]]
    /\ UNCHANGED <<now, nTid, nQid>>

\* clear_old_data_endpoint(days): no await inside; the clock is read for the
\* cutoff, which is that time of day, days days earlier
ClearOldData(r, days) ==
    /\ req[r].pc = "idle"
    /\ \E t \in ClockReads(1) :
       LET cutoff_str == isoformat(t[1] - days * TicksPerDay)
       IN  /\ now' = t[1]
           /\ signatures' = TableRemoveOlder(signatures, cutoff_str)
           /\ quizzes' = TableRemoveOlder(quizzes, cutoff_str)
           /\ submissions' = Forget(submissions, TableRemoveOlder(quizzes, cutoff_str))
           /\ req' = [req EXCEPT ![r] =
                        [Start("clear_old_data", None, <<>>) EXCEPT
                            !.pc = "done",
                            !.resp = Ok([signatures_cleared |->
                                            Len(TableSearchOlder(signatures, cutoff_str)),
                                         quizzes_cleared |->
                                            Len(TableSearchOlder(quizzes, cutoff_str)),
                                         cutoff_date |-> cutoff_str])]]
    /\ UNCHANGED <<nTid, nQid>>

\* the response is delivered and the handler ends
Release(r) ==
    /\ req[r].pc = "done"
    /\ req' = [req EXCEPT ![r] = Idle]
    /\ UNCHANGED <<signatures, quizzes, now, nTid, nQid, submissions>>

\* the scheduler's job is no request: it has a slot of its own
JobSlot == 0

\* scheduled_data_cleanup, started by the scheduler when the clock reaches
\* 00:00 Asia/Kolkata, up to the await of send_webhook:
\* clear_all_signature_data (no await inside) truncates both tables; with no
\* EMAIL_WEBHOOK_URL configured the job ends there
ScheduledCleanup(configured) ==
    /\ req[JobSlot].pc \in {"idle", "done"}
    /\ now \div TicksPerDay < MaxTime
    /\ now' = ((now \div TicksPerDay) + 1) * TicksPerDay
    /\ signatures' = <<>>
    /\ quizzes' = <<>>
    /\ submissions' = Forget(submissions, <<>>)
    /\ req' = [req EXCEPT ![JobSlot] =
                 [Start("scheduled_cleanup", None, <<>>) EXCEPT
                     !.pc = IF configured THEN "notify" ELSE "done"]]
    /\ UNCHANGED <<nTid, nQid>>

\* scheduled_data_cleanup from the return of send_webhook (delivered or not:
\* the job does not read the result) to its end
ScheduledCleanupNotify(delivered) ==
    /\ req[JobSlot].op = "scheduled_cleanup" /\ req[JobSlot].pc = "notify"
    /\ req' = [req EXCEPT ![JobSlot] =
                 [@ EXCEPT !.pc = "done",
                           !.sent = Append(@, Event("scheduled_cleanup", None))]]
    /\ UNCHANGED <<signatures, quizzes, now, nTid, nQid, submissions>>

\* The server is stopped with no request in flight and started again after
\* the next midnight: the tables are the database file as it was left, the
\* job's run of that midnight is not made up for
Restart ==
    /\ \A r \in Slots : req[r].pc = "idle"
    /\ req[JobSlot].pc \in {"idle", "done"}
    /\ now \div TicksPerDay < MaxTime
    /\ now' = ((now \div TicksPerDay) + 1) * TicksPerDay
    /\ req' = [r \in DOMAIN req |-> Idle]
    /\ UNCHANGED <<signatures, quizzes, nTid, nQid, submissions>>

\* the state after start-up with no database file: an empty store, no
\* request in flight, the job waiting for its time
Init ==
    /\ signatures = <<>>
    /\ quizzes = <<>>
    /\ req = [r \in Slots \cup {JobSlot} |-> Idle]
    /\ now = 0
    /\ nTid = 0
    /\ nQid = 0
    /\ submissions = [q \in {QuizIdOf(n) : n \in 1..MaxQuizzes} |-> 0]

\* ====================================================================
\* Specifications.  In every one of them the clock is an input of the run:
\* each reading is free to stand or to move on (ClockReads).
\* ====================================================================

\* inputs of the runs with interleaved handlers
GenFew == {GenListGood, GenRaise}
AnswersFew == {AnswersAll("A"), [id \in {"q1", "q2"} |-> "A"]}

\* the submissions counted in the stored quizzes
RECURSIVE SumAttempts(_)
SumAttempts(table) ==
    IF table = <<>> THEN 0 ELSE Head(table).attempts + SumAttempts(Tail(table))

AttemptsStored == SumAttempts(quizzes)

\* the nightly job: a midnight passes with the server running
Job ==
    \/ \E configured \in BOOLEAN : ScheduledCleanup(configured)
    \/ \E ok \in BOOLEAN : ScheduledCleanupNotify(ok)

\* Requests arrive one at a time for one signature request, with every
\* document id, generator outcome, answer map and notifier result; the store
\* is cleared on request and by the nightly job.
Next ==
    \/ \E r \in OneSlot, d \in DocInputs, p \in BOOLEAN :
          SendDocument(r, d, p) /\ nTid + Loading < MaxSigsConcurrent
    \/ \E r \in OneSlot : SendDocumentInsert(r)
    \/ \E r \in OneSlot, ok \in BOOLEAN : SendDocumentNotify(r, ok)
    \/ \E r \in OneSlot, t \in TrackingInputs, a \in BOOLEAN, p \in BOOLEAN :
          SubmitSignatureRead(r, t, a, p)
    \/ \E r \in OneSlot, g \in GenOutcomes : SubmitSignatureWrite(r, g)
    \/ \E r \in OneSlot, ok \in BOOLEAN : SubmitSignatureNotify(r, ok)
    \/ \E r \in OneSlot, q \in QuizInputs, a \in AnswerMaps :
          SubmitQuizGrade(r, q, a) /\ AttemptsStored < MaxSubmissions
    \/ \E r \in OneSlot, ok \in BOOLEAN : SubmitQuizNotify(r, ok)
    \/ \E r \in OneSlot, t \in TrackingInputs, p \in BOOLEAN :
          GetSignatureStatusRead(r, t, p)
    \/ \E r \in OneSlot : GetSignatureStatusRespond(r)
    \/ \E r \in OneSlot, q \in QuizInputs : GetQuiz(r, q)
    \/ \E r \in OneSlot : ClearAllData(r)
    \/ \E r \in OneSlot : Release(r)
    \/ Job

Spec == Init /\ [][Next]_vars

\* Handlers interleave at their awaits: two requests are in flight together,
\* each of them a create, an acknowledge (affirmed or not), a submission or
\* a clear-all, for one signature request.
NextConcurrent ==
    \/ \E r \in Slots, p \in BOOLEAN :
          SendDocument(r, "nda_policy", p) /\ nTid + Loading < MaxSigsConcurrent
    \/ \E r \in Slots : SendDocumentInsert(r)
    \/ \E r \in Slots, ok \in BOOLEAN : SendDocumentNotify(r, ok)
    \/ \E r \in Slots, t \in TrackingInputs, a \in BOOLEAN, p \in BOOLEAN :
          SubmitSignatureRead(r, t, a, p)
    \/ \E r \in Slots : SubmitSignatureWrite(r, GenListGood)
    \/ \E r \in Slots, ok \in BOOLEAN : SubmitSignatureNotify(r, ok)
    \/ \E r \in Slots, q \in QuizInputs, a \in AnswersFew :
          SubmitQuizGrade(r, q, a) /\ AttemptsStored < MaxSubmissions
    \/ \E r \in Slots, ok \in BOOLEAN : SubmitQuizNotify(r, ok)
    \/ \E r \in Slots : ClearAllData(r)
    \/ \E r \in Slots : Release(r)

SpecConcurrent == Init /\ [][NextConcurrent]_vars

\* An acknowledge and its observers: while one or two acknowledges are in
\* flight, the other handler fetches the signature or the quiz, submits
\* answers, reads the dashboard or purges, by age as well after the server
\* was down over a midnight.  The generator is down (every quiz holds the
\* fallback set).
NextObservers ==
    \/ \E r \in Slots :
          SendDocument(r, "nda_policy", TRUE) /\ nTid + Loading < MaxSigsConcurrent
    \/ \E r \in Slots : SendDocumentInsert(r)
    \/ \E r \in Slots : SendDocumentNotify(r, TRUE)
    \/ \E r \in Slots, t \in TrackingInputs : SubmitSignatureRead(r, t, TRUE, TRUE)
    \/ \E r \in Slots : SubmitSignatureWrite(r, GenRaise)
    \/ \E r \in Slots : SubmitSignatureNotify(r, TRUE)
    \/ \E r \in Slots, q \in QuizInputs :
          SubmitQuizGrade(r, q, AnswersAll("A")) /\ AttemptsStored < MaxSubmissionsIntegrity
    \/ \E r \in Slots : SubmitQuizNotify(r, TRUE)
    \/ \E r \in Slots, t \in TrackingInputs : GetSignatureStatusRead(r, t, TRUE)
    \/ \E r \in Slots : GetSignatureStatusRespond(r)
    \/ \E r \in Slots, q \in QuizInputs : GetQuiz(r, q)
    \/ \E r \in Slots, limit \in 1..MaxLimit, offset \in 0..MaxOffset :
          GetDashboard(r, limit, offset)
    \/ \E r \in Slots : ClearAllData(r)
    \/ \E r \in Slots, days \in 1..MaxDays : ClearOldData(r, days)
    \/ \E r \in Slots : Release(r)
    \/ Restart

SpecObservers == Init /\ [][NextObservers]_vars

\* Signature requests are created, acknowledged and read by interleaved
\* handlers while the days pass and both purges are called; the generator
\* is down (every quiz holds the fallback set).
NextPurge ==
    \/ \E r \in Slots, p \in BOOLEAN :
          SendDocument(r, "nda_policy", p) /\ nTid + Loading < MaxSigsConcurrent
    \/ \E r \in Slots : SendDocumentInsert(r)
    \/ \E r \in Slots : SendDocumentNotify(r, TRUE)
    \/ \E r \in Slots, t \in TrackingInputs, p \in BOOLEAN :
          SubmitSignatureRead(r, t, TRUE, p)
    \/ \E r \in Slots : SubmitSignatureWrite(r, GenRaise)
    \/ \E r \in Slots : SubmitSignatureNotify(r, TRUE)
    \/ \E r \in Slots, t \in TrackingInputs, p \in BOOLEAN :
          GetSignatureStatusRead(r, t, p)
    \/ \E r \in Slots : GetSignatureStatusRespond(r)
    \/ \E r \in Slots, q \in QuizInputs : GetQuiz(r, q)
    \/ \E r \in Slots : ClearAllData(r)
    \/ \E r \in Slots, days \in 1..MaxDays : ClearOldData(r, days)
    \/ \E r \in Slots : Release(r)
    \/ Job
    \/ Restart

SpecPurge == Init /\ [][NextPurge]_vars

\* The dashboard is read page by page while two signature requests are
\* created, in flight together or one after the other, and acknowledged,
\* the server is down over a midnight and old records are purged: records
\* are created at the same time, at different times of a day and on
\* different days.
NextDashboard ==
    \/ \E r \in Slots, p \in BOOLEAN : SendDocument(r, "nda_policy", p)
    \/ \E r \in Slots : SendDocumentInsert(r)
    \/ \E r \in Slots : SendDocumentNotify(r, TRUE)
    \/ \E r \in OneSlot, t \in TrackingInputs, p \in BOOLEAN :
          SubmitSignatureRead(r, t, TRUE, p)
    \/ \E r \in OneSlot : SubmitSignatureWrite(r, GenRaise)
    \/ \E r \in OneSlot : SubmitSignatureNotify(r, TRUE)
    \/ \E r \in Slots, limit \in 1..MaxLimit, offset \in 0..MaxOffset :
          GetDashboard(r, limit, offset)
    \/ \E r \in OneSlot, days \in 1..MaxDays : ClearOldData(r, days)
    \/ \E r \in Slots : Release(r)
    \/ Restart

SpecDashboard == Init /\ [][NextDashboard]_vars

\* Signature requests are created for every document of the catalog and for
\* ids outside it, two of them in flight together, while earlier ones are
\* acknowledged and the store is cleared.
NextCreate ==
    \/ \E r \in Slots, d \in CatalogInputs \cup DocInputs, p \in BOOLEAN :
          SendDocument(r, d, p)
    \/ \E r \in Slots : SendDocumentInsert(r)
    \/ \E r \in Slots, ok \in BOOLEAN : SendDocumentNotify(r, ok)
    \/ \E r \in OneSlot, t \in TrackingInputs, a \in BOOLEAN, p \in BOOLEAN :
          SubmitSignatureRead(r, t, a, p)
    \/ \E r \in OneSlot : SubmitSignatureWrite(r, GenRaise)
    \/ \E r \in OneSlot : SubmitSignatureNotify(r, TRUE)
    \/ \E r \in OneSlot : ClearAllData(r)
    \/ \E r \in Slots : Release(r)

SpecCreate == Init /\ [][NextCreate]_vars

\* Every operation that writes, under interleaving, for two signature
\* requests: two acknowledges can be in flight together, and between the
\* steps of an acknowledge the other slot creates, acknowledges, submits or
\* purges, while the server is down over a midnight.  The generator answers
\* well and every answer is "A".
NextIntegrity ==
    \/ \E r \in OneSlot : SendDocument(r, "nda_policy", TRUE)
    \/ \E r \in OneSlot : SendDocumentInsert(r)
    \/ \E r \in OneSlot : SendDocumentNotify(r, TRUE)
    \/ \E r \in Slots, t \in TrackingInputs : SubmitSignatureRead(r, t, TRUE, TRUE)
    \/ \E r \in Slots : SubmitSignatureWrite(r, GenListGood)
    \/ \E r \in Slots : SubmitSignatureNotify(r, TRUE)
    \/ \E r \in OneSlot, q \in QuizInputs :
          SubmitQuizGrade(r, q, AnswersAll("A")) /\ AttemptsStored < MaxSubmissionsIntegrity
    \/ \E r \in OneSlot : SubmitQuizNotify(r, TRUE)
    \/ \E r \in OneSlot : ClearAllData(r)
    \/ \E r \in OneSlot, days \in 1..MaxDays : ClearOldData(r, days)
    \/ \E r \in Slots : Release(r)
    \/ Restart

SpecIntegrity == Init /\ [][NextIntegrity]_vars

\* Submissions one at a time against the quizzes of two signature requests,
\* re-acknowledged as well, answered well and badly.
NextFrame ==
    \/ \E r \in OneSlot, p \in BOOLEAN : SendDocument(r, "nda_policy", p)
    \/ \E r \in OneSlot : SendDocumentInsert(r)
    \/ \E r \in OneSlot : SendDocumentNotify(r, TRUE)
    \/ \E r \in OneSlot, t \in TrackingInputs, p \in BOOLEAN :
          SubmitSignatureRead(r, t, TRUE, p)
    \/ \E r \in OneSlot, g \in GenFew : SubmitSignatureWrite(r, g)
    \/ \E r \in OneSlot : SubmitSignatureNotify(r, TRUE)
    \/ \E r \in OneSlot, q \in QuizInputs, a \in AnswersFew :
          SubmitQuizGrade(r, q, a) /\ AttemptsStored < MaxSubmissions
    \/ \E r \in OneSlot : SubmitQuizNotify(r, TRUE)
    \/ \E r \in OneSlot : ClearAllData(r)
    \/ \E r \in OneSlot : Release(r)

SpecFrame == Init /\ [][NextFrame]_vars

\* Retakes: the quizzes of one signature request are submitted to again and
\* again, up to MaxAttempts times each, answered well and badly.
NextRetakes ==
    \/ \E r \in OneSlot, p \in BOOLEAN :
          SendDocument(r, "nda_policy", p) /\ nTid + Loading < MaxSigsConcurrent
    \/ \E r \in OneSlot : SendDocumentInsert(r)
    \/ \E r \in OneSlot : SendDocumentNotify(r, TRUE)
    \/ \E r \in OneSlot, t \in TrackingInputs, p \in BOOLEAN :
          SubmitSignatureRead(r, t, TRUE, p)
    \/ \E r \in OneSlot, g \in GenFew : SubmitSignatureWrite(r, g)
    \/ \E r \in OneSlot : SubmitSignatureNotify(r, TRUE)
    \/ \E r \in OneSlot, q \in QuizInputs, a \in AnswerMaps : SubmitQuizGrade(r, q, a)
    \/ \E r \in OneSlot, ok \in BOOLEAN : SubmitQuizNotify(r, ok)
    \/ \E r \in OneSlot : ClearAllData(r)
    \/ \E r \in OneSlot : Release(r)

SpecRetakes == Init /\ [][NextRetakes]_vars

\* One call of send_webhook at a time, against every endpoint.  A post ends
\* (the request has timeout=30.0) and a sleep ends, so both steps are fair.
NextNotifier ==
    \/ \E r \in OneSlot, p \in Payloads, e \in Endpoints : WebhookStart(r, p, e)
    \/ \E r \in OneSlot : WebhookPost(r)
    \/ \E r \in OneSlot : WebhookSleep(r)
    \/ \E r \in OneSlot : Release(r)

SpecNotifier ==
    /\ Init
    /\ [][NextNotifier]_vars
    /\ \A r \in OneSlot : WF_vars(WebhookPost(r)) /\ WF_vars(WebhookSleep(r))

\* ====================================================================
\* Properties
\* ====================================================================

\* the stored signature with this tracking id (tracking ids are unique)
SignatureOf(table, tracking_id) == TableGet(table, "tracking_id", tracking_id)

\* the stored quiz with this quiz id
QuizOf(table, quiz_id) == TableGet(table, "quiz_id", quiz_id)

\* the positions of the signatures whose quiz_id is this quiz
Linked(table, quiz_id) == {i \in 1..Len(table) : table[i].quiz_id = quiz_id}

\* the answer map gives every question its recorded correct answer
AllCorrect(questions, answers) ==
    \A i \in 1..Len(questions) :
        /\ questions[i].id \in DOMAIN answers
        /\ answers[questions[i].id] = questions[i].correct_answer

\* handler r takes the step of submit_quiz that reads, grades and writes a
\* quiz that is in the store
Grades(r) ==
    /\ req[r].pc = "idle"
    /\ req'[r].op = "submit_quiz"
    /\ TableGet(quizzes, "quiz_id", req'[r].arg) # NoValue

\* handler r takes the step of submit_quiz that ends in its response
Answers(r) ==
    /\ req[r].op = "submit_quiz"
    /\ req[r].pc \in {"notify", "notify_sender"}
    /\ req'[r].pc = "done"

\* C1 (as claimed): COMPLETED is terminal.  While a signature record exists,
\* no step takes it out of COMPLETED or changes its completed_at or
\* quiz_passed.
C1_CompletedIsTerminal ==
    [][\A n \in 1..MaxSigs :
          LET before == SignatureOf(signatures, TrackingIdOf(n))
              after == SignatureOf(signatures', TrackingIdOf(n))
          IN  (before # NoValue /\ after # NoValue /\ before[1].status = COMPLETED)
              => /\ after[1].status = COMPLETED
                 /\ after[1].completed_at = before[1].completed_at
                 /\ after[1].quiz_passed = before[1].quiz_passed]_vars

\* C2 (as claimed): in every reachable state every signature record has
\* completed_at set if and only if its status is COMPLETED.
C2_CompletedAtIffCompleted ==
    \A i \in 1..Len(signatures) :
        (signatures[i].completed_at # NoValue) <=> (signatures[i].status = COMPLETED)

\* C3: in every reachable state every signature record has a quiz_id if and
\* only if its status is QUIZ_PENDING, QUIZ_FAILED or COMPLETED, and has none
\* exactly when its status is SENT.
C3_QuizIdIffQuizStatus ==
    \A i \in 1..Len(signatures) :
        /\ (signatures[i].quiz_id # None)
              <=> (signatures[i].status \in {QUIZ_PENDING, QUIZ_FAILED, COMPLETED})
        /\ (signatures[i].quiz_id = None) <=> (signatures[i].status = SENT)

\* C3 witness: a signature that failed its quiz is being acknowledged again
\* (its handler is between the read and the writes) while a second handler
\* is in flight.
C3_Witness ==
    \E i \in 1..Len(signatures), r \in Slots, o \in Slots :
        /\ r # o
        /\ signatures[i].status = QUIZ_FAILED
        /\ signatures[i].quiz_id # None
        /\ req[r].op = "submit_signature" /\ req[r].pc = "loaded"
        /\ req[r].arg = signatures[i].tracking_id
        /\ req[o].op = "submit_quiz" /\ req[o].pc = "notify"

\* C4: when submit_quiz grades a quiz that a signature links to, with an
\* answer map giving every question its recorded correct answer, the handler
\* has passed = true and the score "3/3", right after that step every linked
\* signature is COMPLETED with quiz_passed true and completed_at set, and the
\* response the handler then returns carries passed = true and score "3/3".
C4_AllCorrectCompletes ==
    [][\A r \in Slots :
          /\ (/\ Grades(r)
              /\ Linked(signatures, req'[r].arg) # {}
              /\ AllCorrect(TableGet(quizzes, "quiz_id", req'[r].arg)[1].questions,
                            req'[r].submission))
             => /\ req'[r].pc = "notify"
                /\ req'[r].passed
                /\ Score(req'[r].correct_count, req'[r].total_questions) = "3/3"
                /\ Linked(signatures', req'[r].arg) = Linked(signatures, req'[r].arg)
                /\ \A i \in Linked(signatures', req'[r].arg) :
                      /\ signatures'[i].status = COMPLETED
                      /\ signatures'[i].quiz_passed
                      /\ signatures'[i].completed_at # NoValue
          /\ (/\ Answers(r)
              /\ AllCorrect(req[r].quiz[1].questions, req[r].submission))
             => /\ req'[r].resp.code = 200
                /\ req'[r].resp.data.passed
                /\ req'[r].resp.data.score = "3/3"]_vars

\* C4 witness: a submission of the fallback set's correct answers was answered
\* passed, "3/3", and the signature linked to its quiz is COMPLETED.
C4_Witness ==
    \E r \in Slots, i \in 1..Len(signatures) :
        /\ req[r].op = "submit_quiz" /\ req[r].pc = "done"
        /\ AllCorrect(get_fallback_questions, req[r].submission)
        /\ req[r].resp.code = 200
        /\ req[r].resp.data.passed
        /\ req[r].resp.data.score = "3/3"
        /\ signatures[i].quiz_id = req[r].arg
        /\ signatures[i].status = COMPLETED
        /\ signatures[i].quiz_passed
        /\ signatures[i].completed_at # NoValue

\* C5: when submit_quiz grades a quiz that a signature links to, with an
\* answer map that answers some question wrongly or not at all, the handler
\* has passed = false, right after that step every linked signature has
\* status QUIZ_FAILED whatever it was before, and the response the handler
\* then returns carries passed = false.
C5_WrongAnswerFails ==
    [][\A r \in Slots :
          /\ (/\ Grades(r)
              /\ Linked(signatures, req'[r].arg) # {}
              /\ ~AllCorrect(TableGet(quizzes, "quiz_id", req'[r].arg)[1].questions,
                             req'[r].submission))
             => /\ req'[r].pc = "notify"
                /\ ~req'[r].passed
                /\ Linked(signatures', req'[r].arg) = Linked(signatures, req'[r].arg)
                /\ \A i \in Linked(signatures', req'[r].arg) :
                      signatures'[i].status = QUIZ_FAILED
          /\ (/\ Answers(r)
              /\ ~AllCorrect(req[r].quiz[1].questions, req[r].submission))
             => /\ req'[r].resp.code = 200
                /\ ~req'[r].resp.data.passed]_vars

\* C5 witness: a submission that left q3 out was answered passed = false, and
\* the linked signature, COMPLETED before (its completed_at is set), is
\* QUIZ_FAILED.
C5_Witness ==
    \E r \in Slots, i \in 1..Len(signatures) :
        /\ req[r].op = "submit_quiz" /\ req[r].pc = "done"
        /\ DOMAIN req[r].submission = {"q1", "q2"}
        /\ req[r].resp.code = 200
        /\ ~req[r].resp.data.passed
        /\ signatures[i].quiz_id = req[r].arg
        /\ signatures[i].status = QUIZ_FAILED
        /\ signatures[i].completed_at # NoValue

\* the reference grading: the number of questions whose id is a key of the
\* answer map with exactly the recorded correct answer as its value
RefCorrect(questions, answers) ==
    Cardinality({i \in 1..Len(questions) :
                    /\ questions[i].id \in DOMAIN answers
                    /\ answers[questions[i].id] = questions[i].correct_answer})

\* "<correct>/<total>" in decimal digits
RefScore(correct, total) ==
    LET digit == <<"0", "1", "2", "3", "4", "5", "6", "7", "8", "9">>
    IN  digit[correct + 1] \o "/" \o digit[total + 1]

\* C6: submit_quiz grades as the reference function does.  For every stored
\* quiz and every answer map the handler's correct count is the number of
\* questions answered with exactly the recorded correct answer (a missing key
\* counts as wrong, a key of no question is ignored), passed is true iff that
\* number is the number of questions, the score reads "<correct>/<total>",
\* the quiz record gets that outcome, and the response carries that score and
\* that passed.
C6_GradingIsReference ==
    [][\A r \in Slots :
          /\ Grades(r)
             => LET quiz == TableGet(quizzes, "quiz_id", req'[r].arg)[1]
                    ref == RefCorrect(quiz.questions, req'[r].submission)
                    stored == TableGet(quizzes', "quiz_id", req'[r].arg)
                IN  /\ req'[r].correct_count = ref
                    /\ req'[r].total_questions = Len(quiz.questions)
                    /\ Score(req'[r].correct_count, req'[r].total_questions)
                          = RefScore(ref, Len(quiz.questions))
                    /\ req'[r].passed <=> (ref = Len(quiz.questions))
                    /\ stored # NoValue
                    /\ stored[1].last_score = Some(ref)
                    /\ stored[1].passed <=> (ref = Len(quiz.questions))
          /\ Answers(r)
             => LET ref == RefCorrect(req[r].quiz[1].questions, req[r].submission)
                    total == Len(req[r].quiz[1].questions)
                IN  /\ req'[r].resp.code = 200
                    /\ req'[r].resp.data.score = RefScore(ref, total)
                    /\ req'[r].resp.data.passed <=> (ref = total)]_vars

\* C6 witness: a submission with a missing answer has been graded on a quiz
\* that had been submitted to before: it was answered "2/3", not passed, as
\* the second attempt, and the quiz record holds 2 correct.
C6_Witness ==
    \E r \in Slots, i \in 1..Len(quizzes) :
        /\ req[r].op = "submit_quiz" /\ req[r].pc = "done"
        /\ DOMAIN req[r].submission = {"q1", "q2"}
        /\ req[r].resp.code = 200
        /\ req[r].resp.data.score = "2/3"
        /\ ~req[r].resp.data.passed
        /\ req[r].resp.data.attempts = 2
        /\ quizzes[i].quiz_id = req[r].arg
        /\ quizzes[i].last_score = Some(2)
        /\ ~quizzes[i].passed

\* handler r takes the step of submit_signature that generates the questions,
\* inserts the quiz and updates the signature
Writes(r) ==
    /\ req[r].op = "submit_signature"
    /\ req[r].pc = "loaded"
    /\ req'[r].pc = "notify"

\* C7 (as claimed): a quiz is created with attempts 0; every submit_quiz call
\* that finds the quiz leaves the stored attempts equal to the number of
\* submissions made so far, however the handlers interleave; and each such
\* call answers with the attempts count that includes its own submission.
C7_AttemptsCountSubmissions ==
    [][\A r \in Slots :
          /\ Writes(r) => quizzes'[Len(quizzes')].attempts = 0
          /\ Grades(r)
             => LET stored == TableGet(quizzes', "quiz_id", req'[r].arg)
                IN  /\ stored # NoValue
                    /\ stored[1].attempts = submissions'[req'[r].arg]
                    /\ stored[1].attempts =
                          TableGet(quizzes, "quiz_id", req'[r].arg)[1].attempts + 1
                    \* the call goes on to answer with a result
                    /\ req'[r].pc = "notify"
                    /\ req'[r].quiz[1].attempts + 1 = submissions'[req'[r].arg]
          /\ Answers(r)
             => /\ req'[r].resp.code = 200
                /\ req'[r].resp.data.attempts = req[r].quiz[1].attempts + 1]_vars

\* The counting part of C7 alone: the stored attempts equal the number of
\* submissions made so far under every interleaving, and every response that
\* carries a result reports the count including its own submission.
NoLostUpdate ==
    [][\A r \in Slots :
          /\ Grades(r)
             => LET stored == TableGet(quizzes', "quiz_id", req'[r].arg)
                IN  /\ stored # NoValue
                    /\ stored[1].attempts = submissions'[req'[r].arg]
                    /\ req'[r].pc = "notify"
                          => req'[r].quiz[1].attempts + 1 = submissions'[req'[r].arg]
          /\ Answers(r)
             => /\ req'[r].resp.code = 200
                /\ req'[r].resp.data.attempts = req[r].quiz[1].attempts + 1]_vars

\* C8 (as claimed): submit_quiz on a stored quiz that no signature links to
\* records the outcome in the quiz, updates no signature, sends no
\* notification and answers with the grading result, not with an error.
C8_OrphanQuizIsGraded ==
    [][\A r \in Slots :
          (Grades(r) /\ Linked(signatures, req'[r].arg) = {})
          => LET quiz == TableGet(quizzes, "quiz_id", req'[r].arg)[1]
                 ref == RefCorrect(quiz.questions, req'[r].submission)
                 stored == TableGet(quizzes', "quiz_id", req'[r].arg)
             IN  /\ stored # NoValue
                 /\ stored[1].attempts = quiz.attempts + 1
                 /\ stored[1].passed <=> (ref = Len(quiz.questions))
                 /\ stored[1].last_score = Some(ref)
                 /\ stored[1].last_attempt # NoValue
                 /\ signatures' = signatures
                 /\ req'[r].sent = <<>>
                 /\ req'[r].pc = "done"
                 /\ req'[r].resp.code = 200
                 /\ req'[r].resp.data.passed <=> (ref = Len(quiz.questions))
                 /\ req'[r].resp.data.score = RefScore(ref, Len(quiz.questions))
                 /\ req'[r].resp.data.attempts = quiz.attempts + 1]_vars

\* C9 (as claimed): whatever the generator returns, the writing step of
\* acknowledge inserts one quiz with exactly 3 questions of exactly 4 options
\* each, sets the signature's quiz_id to the new quiz and its status to
\* QUIZ_PENDING, and the response carries that quiz id.
C9_AcknowledgeMakesQuiz ==
    [][\A r \in Slots :
          /\ Writes(r)
             => LET quiz == quizzes'[Len(quizzes')]
                    signature == SignatureOf(signatures', req[r].arg)
                IN  /\ Len(quizzes') = Len(quizzes) + 1
                    /\ quiz.quiz_id = req'[r].quiz_id
                    /\ Len(quiz.questions) = 3
                    /\ \A i \in 1..Len(quiz.questions) :
                          Len(quiz.questions[i].options) = 4
                    /\ signature # NoValue
                    /\ signature[1].quiz_id = quiz.quiz_id
                    /\ signature[1].status = QUIZ_PENDING
          /\ (/\ req[r].op = "submit_signature"
              /\ req[r].pc = "notify"
              /\ req'[r].pc = "done")
             => /\ req'[r].resp.code = 200
                /\ req'[r].resp.data.quiz_id = req[r].quiz_id]_vars

\* the elements of a sequence
Range(seq) == {seq[i] : i \in 1..Len(seq)}

\* C10 (as claimed): in every stored quiz every question's correct answer is
\* one of its options and its options are pairwise distinct, so that answering
\* each question with one of its options can pass the quiz.
C10_AnswerIsAnOption ==
    \A i \in 1..Len(quizzes) :
        \A j \in 1..Len(quizzes[i].questions) :
            LET q == quizzes[i].questions[j]
            IN  /\ q.correct_answer \in Range(q.options)
                /\ Cardinality(Range(q.options)) = Len(q.options)

\* the generator's response is a failure in the sense of the failure policy:
\* the call raised, the JSON has the wrong shape (neither an object with
\* 'questions' nor an array, or a value of the wrong type), some question
\* lacks a field, or there are fewer than num_questions questions
GenFails(gen, num_questions) ==
    \/ gen.kind = "raise"
    \/ gen.kind \notin {"dict", "list"}
    \/ \E i \in 1..Len(gen.items) : ~gen.items[i].typed
    \/ \E i \in 1..Len(gen.items) : ~(AllKeys \subseteq gen.items[i].keys)
    \/ Len(gen.items) < num_questions

\* the same, looking only at the questions the code converts (the first
\* num_questions of the response)
GenFailsWithinRequested(gen, num_questions) ==
    \/ gen.kind = "raise"
    \/ gen.kind \notin {"dict", "list"}
    \/ \E i \in 1..Len(gen.items) :
          i <= num_questions /\ ConvertRaises(gen.items[i])
    \/ Len(gen.items) < num_questions

\* handler r takes the step of submit_signature that ends in its response
Acknowledges(r) ==
    /\ req[r].op = "submit_signature"
    /\ req[r].pc = "notify"
    /\ req'[r].pc = "done"

\* C11 (as claimed): whenever the generator call raises or its response has
\* the wrong shape, has a question missing a field or has fewer than 3
\* questions, the writing step of acknowledge inserts a quiz holding exactly
\* the static fallback set q1..q3, goes on to its notification, and the
\* response is a success carrying the quiz id.
C11_GeneratorFailureFallsBack ==
    [][\A r \in Slots :
          /\ \A gen \in GenOutcomes :
                (GenFails(gen, NumQuestions) /\ SubmitSignatureWrite(r, gen))
                => /\ Len(quizzes') = Len(quizzes) + 1
                   /\ quizzes'[Len(quizzes')].questions = get_fallback_questions
                   /\ req'[r].pc = "notify"
          /\ Acknowledges(r)
             => /\ req'[r].resp.code = 200
                /\ req'[r].resp.data.quiz_id = req[r].quiz_id]_vars

\* The part of C11 that the code keeps: a failure among the questions it
\* converts (the first 3) always gives the whole fallback set, and a stored
\* quiz is never a mix of generated and fallback questions.
FallbackWithinRequested ==
    [][\A r \in Slots :
          \A gen \in GenOutcomes :
             SubmitSignatureWrite(r, gen)
             => LET stored == quizzes'[Len(quizzes')].questions
                IN  /\ GenFailsWithinRequested(gen, NumQuestions)
                       => stored = get_fallback_questions
                    /\ \/ stored = get_fallback_questions
                       \/ \A i \in 1..Len(stored) :
                             stored[i] \notin Range(get_fallback_questions)]_vars

\* the ids of the quizzes stored at position i or later for this tracking id
\* (the table is in insertion order)
QuizzesFrom(table, i, tracking_id) ==
    {table[j].quiz_id : j \in {k \in i..Len(table) : table[k].tracking_id = tracking_id}}

\* C12: in every state any operation can observe, under every interleaving of
\* the handlers, a stored quiz whose signature still exists is never ahead of
\* that signature: the signature carries the quiz_id of that quiz, or of a
\* quiz a later acknowledge of the same tracking id inserted, and its status
\* is no longer SENT.
C12_WritesObservableTogether ==
    \A i \in 1..Len(quizzes) :
        LET signature == SignatureOf(signatures, quizzes[i].tracking_id)
        IN  signature # NoValue
            => /\ signature[1].quiz_id \in QuizzesFrom(quizzes, i, quizzes[i].tracking_id)
               /\ signature[1].status # SENT

\* C12 witness: while an acknowledge is still in flight after its writes, a
\* second handler has read the dashboard, whose page shows the signature
\* with the id of the new quiz, and that quiz is stored.
C12_Witness ==
    \E r \in Slots, o \in Slots, i \in 1..Len(signatures) :
        /\ r # o
        /\ req[r].op = "submit_signature" /\ req[r].pc = "notify"
        /\ req[o].op = "get_dashboard" /\ req[o].pc = "done"
        /\ req[o].resp.code = 200
        /\ Len(req[o].resp.data.signatures) = 1
        /\ req[o].resp.data.signatures[1].tracking_id = req[r].arg
        /\ req[o].resp.data.signatures[1].quiz_id = req[r].quiz_id
        /\ QuizOf(quizzes, req[r].quiz_id) # NoValue
        /\ signatures[i].tracking_id = req[r].arg
        /\ signatures[i].quiz_id = req[r].quiz_id

\* C13: two acknowledges of the same tracking id in flight together.  When
\* an acknowledge writes after another acknowledge of the same tracking id
\* has written since its read (the stored signature carries a quiz_id that
\* the copy it read does not), wherever that other handler is by then (in
\* its notification, answered, or gone), and the signature and the other
\* one's quiz are still stored, the step creates a second quiz with its own
\* id, the first quiz stays in the store as it is, the signature references
\* the quiz written last with status QUIZ_PENDING, and no signature
\* references the first quiz any more (it is an orphan); each acknowledge
\* then answers with the id of the quiz it created itself.
C13_ConcurrentAcknowledges ==
    [][\A o \in Slots :
          /\ (/\ Writes(o)
              /\ SignatureOf(signatures, req[o].arg) # NoValue
              /\ SignatureOf(signatures, req[o].arg)[1].quiz_id
                    # req[o].signature[1].quiz_id
              /\ QuizOf(quizzes, SignatureOf(signatures, req[o].arg)[1].quiz_id)
                    # NoValue)
             => LET first == SignatureOf(signatures, req[o].arg)[1].quiz_id
                IN  /\ req'[o].quiz_id # first
                    /\ QuizOf(quizzes, req'[o].quiz_id) = NoValue
                    /\ QuizOf(quizzes', req'[o].quiz_id) # NoValue
                    /\ QuizOf(quizzes', req'[o].quiz_id)[1].tracking_id = req[o].arg
                    /\ QuizOf(quizzes', first) = QuizOf(quizzes, first)
                    /\ SignatureOf(signatures', req[o].arg)[1].quiz_id = req'[o].quiz_id
                    /\ SignatureOf(signatures', req[o].arg)[1].status = QUIZ_PENDING
                    /\ Linked(signatures', first) = {}
                    /\ Linked(signatures', req'[o].quiz_id) # {}
          /\ Acknowledges(o)
             => /\ req'[o].resp.code = 200
                /\ req'[o].resp.data.quiz_id = req[o].quiz_id
                /\ \A r \in Slots \ {o} :
                      (req[r].op = "submit_signature"
                         /\ req[r].pc \in {"notify", "done"})
                      => req[r].quiz_id # req[o].quiz_id]_vars

\* C13 witness: two acknowledges of the same tracking id, both of which read
\* the signature before either wrote, have both written; the first has
\* answered with its quiz id, the second has not answered yet; their quiz
\* ids differ, both quizzes are stored, the signature is QUIZ_PENDING and
\* references the one written last, and no signature references the other.
C13_Witness ==
    \E r \in Slots, o \in Slots, i \in 1..Len(signatures) :
        /\ r # o
        /\ req[r].op = "submit_signature" /\ req[r].pc = "done"
        /\ req[r].resp = Ok([quiz_id |-> req[r].quiz_id])
        /\ req[o].op = "submit_signature" /\ req[o].pc = "notify"
        /\ req[o].signature[1].quiz_id = None
        /\ req[r].arg = req[o].arg
        /\ req[r].quiz_id # req[o].quiz_id
        /\ QuizOf(quizzes, req[r].quiz_id) # NoValue
        /\ QuizOf(quizzes, req[o].quiz_id) # NoValue
        /\ signatures[i].tracking_id = req[r].arg
        /\ signatures[i].quiz_id = req[o].quiz_id
        /\ signatures[i].status = QUIZ_PENDING
        /\ Linked(signatures, req[r].quiz_id) = {}

\* C14 (as claimed): in every interleaving of acknowledge with clear-all and
\* the age-based purge, an acknowledge that goes on to answer with success
\* and quiz id Q has, at its writing step, a stored signature for its
\* tracking id whose quiz_id is Q; and an acknowledge whose signature was
\* purged between its read and its writes inserts no quiz and does not go on
\* to a success response.
C14_PurgeExcludesAcknowledge ==
    [][\A r \in Slots :
          /\ (Writes(r) /\ req'[r].pc = "notify")
             => LET signature == SignatureOf(signatures', req[r].arg)
                IN  /\ signature # NoValue
                    /\ signature[1].quiz_id = req'[r].quiz_id
          /\ (/\ req[r].op = "submit_signature" /\ req[r].pc = "loaded"
              /\ req'[r] # req[r]
              /\ SignatureOf(signatures, req[r].arg) = NoValue)
             => /\ quizzes' = quizzes
                /\ req'[r].pc = "done"
                /\ req'[r].resp.code # 200
          /\ Acknowledges(r)
             => (req'[r].resp.code = 200
                 => req'[r].resp.data.quiz_id = req[r].quiz_id)]_vars

\* a 200 / 201 / 202 response
Delivered(outcome) == outcome.kind = "status" /\ outcome.code \in {200, 201, 202}

\* C15: for every endpoint, a call of send_webhook never ends by raising,
\* makes at most 3 posts, and when it has returned it has made at least 1
\* post and its result is a boolean that is true only if one of the posts it
\* made got a 200 / 201 / 202 response; and every call returns.
C15_NotifierBoundedAndTotal ==
    /\ [](\A r \in OneSlot :
            req[r].op = "send_webhook"
            => /\ req[r].pc \in {"post", "sleep", "done"}
               /\ req[r].posts <= 3
               /\ req[r].pc = "done"
                  => /\ req[r].posts >= 1
                     /\ req[r].result \in BOOLEAN
                     /\ req[r].result
                        => \E i \in 1..req[r].posts : Delivered(req[r].endpoint[i]))
    /\ \A r \in OneSlot :
          (req[r].op = "send_webhook")
             ~> (req[r].op = "send_webhook" /\ req[r].pc = "done")

\* C15 witness: a call against an endpoint that times out, then raises a
\* transport error, has returned false after 2 posts.
C15_Witness ==
    \E r \in OneSlot :
        /\ req[r].op = "send_webhook" /\ req[r].pc = "done"
        /\ req[r].endpoint[1] = Timeout
        /\ req[r].endpoint[2] = TransportError
        /\ req[r].posts = 2
        /\ req[r].result = FALSE

\* the claimed retry rule: an outcome is retried when it is a 5xx response or
\* a timeout
Retryable(outcome) ==
    \/ outcome.kind = "timeout"
    \/ outcome.kind = "status" /\ outcome.code \in 500..599

\* the first outcome of the endpoint that is not retried (0 when all 3 are)
FirstStop(endpoint) ==
    IF \A i \in 1..3 : Retryable(endpoint[i]) THEN 0
    ELSE CHOOSE i \in 1..3 :
            /\ ~Retryable(endpoint[i])
            /\ \A j \in 1..(i - 1) : Retryable(endpoint[j])

\* the attempts and the result the claimed rule gives for an endpoint
RefAttempts(endpoint) == IF FirstStop(endpoint) = 0 THEN 3 ELSE FirstStop(endpoint)
RefResult(endpoint) ==
    FirstStop(endpoint) # 0 /\ Delivered(endpoint[FirstStop(endpoint)])

\* C16: when a call of send_webhook has returned, the number of posts it made
\* and its result are those the retry rule gives for the endpoint's outcome
\* sequence: it stopped at the first outcome that is not a 5xx or a timeout,
\* with true iff that outcome is a 200 / 201 / 202.  So 503, 503, 200 gives 3
\* posts and true, 404 gives 1 post and false, and 3 retryable outcomes give
\* 3 posts and false.
C16_NotifierFollowsOutcomes ==
    \A r \in OneSlot :
        (req[r].op = "send_webhook" /\ req[r].pc = "done")
        => LET e == req[r].endpoint
           IN  /\ req[r].posts = RefAttempts(e)
               /\ req[r].result = RefResult(e)
               /\ e = <<Status(503), Status(503), Status(200)>>
                  => (req[r].posts = 3 /\ req[r].result = TRUE)
               /\ e[1] = Status(404)
                  => (req[r].posts = 1 /\ req[r].result = FALSE)
               /\ (\A i \in 1..3 : Retryable(e[i]))
                  => (req[r].posts = 3 /\ req[r].result = FALSE)

\* C16 witness: a call against the endpoint 503, 503, 200 has returned true
\* after 3 posts.
C16_Witness ==
    \E r \in OneSlot :
        /\ req[r].op = "send_webhook" /\ req[r].pc = "done"
        /\ req[r].endpoint = <<Status(503), Status(503), Status(200)>>
        /\ req[r].posts = 3
        /\ req[r].result = TRUE

\* the step is one of handler r's steps that follow a return of send_webhook,
\* the notifier having returned ok
NotifiedStep(r, ok) ==
    \/ SendDocumentNotify(r, ok)
    \/ SubmitSignatureNotify(r, ok)
    \/ SubmitQuizNotify(r, ok)

\* C17: a notifier failure is absorbed, under every interleaving of the
\* handlers.  In send_document, submit_signature and submit_quiz, the step
\* that follows a return of send_webhook leaves both tables as they are, and
\* what the handler goes on with (its next notification or its response) is
\* the same, a function of what it held before, whether the notifier
\* returned true or false.  send_document has inserted its record with
\* status SENT before the notifier is called, and answers with that
\* record's tracking id and status SENT whatever the notifier returned; the
\* record is then stored as the insert left it, unless another request has
\* acknowledged it or cleared the store during the notification.
C17_NotifierFailureAbsorbed ==
    [][\A r \in Slots, ok \in BOOLEAN :
          /\ NotifiedStep(r, ok)
             => (signatures' = signatures /\ quizzes' = quizzes)
          /\ (req[r].op = "send_document" /\ req[r].pc = "loaded"
                 /\ req'[r].pc = "notify")
             => /\ SignatureOf(signatures', req'[r].arg) # NoValue
                /\ SignatureOf(signatures', req'[r].arg)[1].status = SENT
          /\ SendDocumentNotify(r, ok)
             => /\ req'[r].pc = "done"
                /\ req'[r].resp = Ok([tracking_id |-> req[r].arg, status |-> SENT])
                /\ (/\ SignatureOf(signatures, req[r].arg) # NoValue
                    /\ SignatureOf(signatures, req[r].arg)[1].quiz_id = None)
                   => /\ SignatureOf(signatures', req[r].arg) # NoValue
                      /\ SignatureOf(signatures', req[r].arg)[1].status = SENT
          /\ SubmitSignatureNotify(r, ok)
             => /\ req'[r].pc = "done"
                /\ req'[r].resp = Ok([quiz_id |-> req[r].quiz_id])
          /\ SubmitQuizNotify(r, ok)
             => IF req[r].pc = "notify" /\ req[r].passed
                THEN /\ req'[r].pc = "notify_sender"
                     /\ req'[r].resp = NoResponse
                ELSE /\ req'[r].pc = "done"
                     /\ req'[r].resp =
                           Ok([passed |-> req[r].passed,
                               score |-> Score(req[r].correct_count,
                                               req[r].total_questions),
                               attempts |-> req[r].quiz[1].attempts + 1])]_vars

\* C17 witness: send_document has answered with its tracking id although the
\* notifier returned false, and the record is stored with status SENT, while
\* a second handler, an acknowledge of that record, is between its read and
\* its writes.
C17_Witness ==
    \E r \in Slots, o \in Slots, i \in 1..Len(signatures) :
        /\ r # o
        /\ req[r].op = "send_document" /\ req[r].pc = "done"
        /\ req[r].email_sent = FALSE
        /\ req[r].resp.code = 200
        /\ req[r].resp.data.tracking_id = signatures[i].tracking_id
        /\ signatures[i].status = SENT
        /\ req[o].op = "submit_signature" /\ req[o].pc = "loaded"
        /\ req[o].arg = signatures[i].tracking_id

\* the request handler h was entered with names no record: a tracking id or
\* a quiz id that is not in its table, a document id outside the catalog
NamesNoRecord(h) ==
    \/ /\ h.op \in {"get_signature_status", "submit_signature"}
       /\ SignatureOf(signatures, h.arg) = NoValue
    \/ /\ h.op \in {"get_quiz", "submit_quiz"}
       /\ QuizOf(quizzes, h.arg) = NoValue
    \/ /\ h.op = "send_document"
       /\ h.submission.document_id \notin DOCUMENT_MAPPING

\* C18 (as claimed): a request that names no record (fetch signature or
\* acknowledge with a tracking id not stored, fetch quiz or submit_quiz with
\* a quiz id not stored, send_document with a document id outside the
\* catalog, whatever characters it is made of) ends in its
\* first step with NotFound; both tables stay as they were, no identifier is
\* drawn, the generator is not called (the handler never reaches its writing
\* step) and no notification is sent.
C18_UnknownIdIsNotFound ==
    [][\A r \in Slots :
          (/\ req[r].pc = "idle"
           /\ req'[r].pc # "idle"
           /\ NamesNoRecord(req'[r]))
          => /\ req'[r].pc = "done"
             /\ req'[r].resp = NotFound
             /\ req'[r].sent = <<>>
             /\ signatures' = signatures
             /\ quizzes' = quizzes
             /\ nTid' = nTid
             /\ nQid' = nQid]_vars

\* C19: retakes are not limited.  When a submit_quiz request arrives for a
\* stored quiz that has been submitted before (attempts of 1 or more, any
\* value), whose signature is in QUIZ_FAILED, with every answer correct, its
\* first step does not reject it: it grades it passed, counts the attempt and
\* leaves every linked signature COMPLETED.
C19_RetakesUnlimited ==
    [][\A r \in Slots :
          (/\ Grades(r)
           /\ QuizOf(quizzes, req'[r].arg)[1].attempts >= 1
           /\ Linked(signatures, req'[r].arg) # {}
           /\ \A i \in Linked(signatures, req'[r].arg) :
                 signatures[i].status = QUIZ_FAILED
           /\ AllCorrect(QuizOf(quizzes, req'[r].arg)[1].questions,
                         req'[r].submission))
          => /\ req'[r].pc = "notify"
             /\ req'[r].passed
             /\ QuizOf(quizzes', req'[r].arg)[1].attempts
                   = QuizOf(quizzes, req'[r].arg)[1].attempts + 1
             /\ QuizOf(quizzes', req'[r].arg)[1].passed
             /\ Linked(signatures', req'[r].arg) = Linked(signatures, req'[r].arg)
             /\ \A i \in Linked(signatures', req'[r].arg) :
                   /\ signatures'[i].status = COMPLETED
                   /\ signatures'[i].quiz_passed]_vars

\* C19 witness: a quiz failed on its first and on its second submission has
\* been passed on its third: the response reports attempts 3 and passed, and
\* the signature is COMPLETED.
C19_Witness ==
    \E r \in Slots, i \in 1..Len(signatures), j \in 1..Len(quizzes) :
        /\ req[r].op = "submit_quiz" /\ req[r].pc = "done"
        /\ req[r].resp.code = 200
        /\ req[r].resp.data.passed
        /\ req[r].resp.data.attempts = 3
        /\ quizzes[j].quiz_id = req[r].arg
        /\ quizzes[j].attempts = 3
        /\ signatures[i].quiz_id = req[r].arg
        /\ signatures[i].status = COMPLETED

\* C20: once a signature has a quiz (its quiz_id is set), no step of any
\* operation leaves the record stored with status SENT or ACKNOWLEDGED, or
\* without a quiz_id.
C20_NoWayBackToSent ==
    [][\A n \in 1..MaxSigs :
          LET before == SignatureOf(signatures, TrackingIdOf(n))
              after == SignatureOf(signatures', TrackingIdOf(n))
          IN  (/\ before # NoValue
               /\ after # NoValue
               /\ before[1].quiz_id # None)
              => /\ after[1].status \notin {SENT, ACKNOWLEDGED}
                 /\ after[1].quiz_id # None]_vars

\* C20 witness: a signature that was acknowledged, failed its quiz and was
\* acknowledged again has failed its second quiz too.
C20_Witness ==
    \E i \in 1..Len(signatures), j \in 1..Len(quizzes), k \in 1..Len(quizzes) :
        /\ j < k
        /\ quizzes[j].tracking_id = signatures[i].tracking_id
        /\ quizzes[k].tracking_id = signatures[i].tracking_id
        /\ quizzes[j].attempts >= 1
        /\ quizzes[k].attempts >= 1
        /\ signatures[i].quiz_id = quizzes[k].quiz_id
        /\ signatures[i].status = QUIZ_FAILED

\* the time a timestamp string stands for, in ticks since the midnight of
\* the start of the run
TimeOf(str) ==
    ((str[1] - 48) * 10 + (str[2] - 48) - StartDay) * TicksPerDay
    + (str[4] - 48) * 10 + (str[5] - 48)

\* the records of a table created at time c or later, in their order
CreatedSince(table, c) == SelectSeq(table, LAMBDA x : TimeOf(x.created_at) >= c)

\* C21: the age-based purge with cutoff c = now - days (the time of the call,
\* that many days earlier) leaves in each table,
\* independently of the other, exactly the records created at c or later (a
\* record created exactly at c is kept, one created before c is removed, and
\* a quiz is not removed with its signature), and its response reports the
\* numbers of records that the step removed; under every interleaving of the
\* handlers.
C21_AgePurgeIsStrict ==
    [][\A r \in Slots, days \in 1..MaxDays :
          ClearOldData(r, days)
          => /\ signatures' = CreatedSince(signatures, now' - days * TicksPerDay)
             /\ quizzes' = CreatedSince(quizzes, now' - days * TicksPerDay)
             /\ req'[r].resp.code = 200
             /\ req'[r].resp.data.signatures_cleared
                   = Len(signatures) - Len(signatures')
             /\ req'[r].resp.data.quizzes_cleared = Len(quizzes) - Len(quizzes')]_vars

\* C21 witness: a purge has removed one signature and no quiz: the quiz of
\* the removed signature, created exactly at the cutoff, is still stored.
C21_Witness ==
    \E r \in Slots, i \in 1..Len(quizzes) :
        /\ req[r].op = "clear_old_data" /\ req[r].pc = "done"
        /\ req[r].resp.data.signatures_cleared = 1
        /\ req[r].resp.data.quizzes_cleared = 0
        /\ quizzes[i].created_at = req[r].resp.data.cutoff_date
        /\ SignatureOf(signatures, quizzes[i].tracking_id) = NoValue

\* the one-to-one maps of 1..n onto itself
Orderings(n) == {p \in [1..n -> 1..n] : \A i, j \in 1..n : i # j => p[i] # p[j]}

\* list holds the records of table, each once, newest first
NewestFirst(list, table) ==
    /\ Len(list) = Len(table)
    /\ \E p \in Orderings(Len(table)) : \A i \in 1..Len(table) : list[i] = table[p[i]]
    /\ \A i \in 1..(Len(list) - 1) : TimeOf(list[i].created_at) >= TimeOf(list[i + 1].created_at)

Min(a, b) == IF a < b THEN a ELSE b
Max(a, b) == IF a < b THEN b ELSE a

\* C22: getDashboard(limit L, offset O) changes no record; its total is the
\* number of stored signatures, whatever L and O are; the records it returns
\* are those at positions O (inclusive) to O + L (exclusive) of the stored
\* signatures ordered by created_at, newest first, so their number is
\* min(L, max(0, total - O)).
C22_DashboardIsAPageOfNewestFirst ==
    [][\A r \in Slots, L \in 1..MaxLimit, O \in 0..MaxOffset :
          GetDashboard(r, L, O)
          => LET data == req'[r].resp.data
                 n == Min(L, Max(0, Len(signatures) - O))
             IN  /\ signatures' = signatures /\ quizzes' = quizzes
                 /\ req'[r].resp.code = 200
                 /\ data.total = Len(signatures)
                 /\ Len(data.signatures) = n
                 /\ \E all \in {[i \in 1..Len(signatures) |-> signatures[p[i]]] :
                                    p \in Orderings(Len(signatures))} :
                        /\ NewestFirst(all, signatures)
                        /\ \A k \in 1..n : data.signatures[k] = all[O + k]]_vars

\* C22 witness: of two signatures created at different times, the second
\* page of size one holds the older one, which is the first of the table.
C22_Witness ==
    \E r \in Slots :
        /\ req[r].op = "get_dashboard" /\ req[r].pc = "done"
        /\ Len(signatures) = 2
        /\ signatures[1].created_at # signatures[2].created_at
        /\ req[r].resp.data.total = 2
        /\ req[r].resp.data.offset = 1
        /\ req[r].resp.data.signatures = <<signatures[1]>>

\* C23: a successful fetch-quiz response holds the quiz id, the attempts and,
\* for each stored question in order, exactly the fields id, question and
\* options with the stored values: no field of the response carries or
\* depends on correct_answer, so two quizzes that differ only in their
\* correct answers are answered identically.
C23_FetchQuizHidesAnswers ==
    [][\A r \in Slots, q \in QuizInputs :
          (GetQuiz(r, q) /\ req'[r].resp.code = 200)
          => LET stored == QuizOf(quizzes, q)[1]
                 data == req'[r].resp.data
             IN  /\ DOMAIN data = {"quiz_id", "questions", "attempts"}
                 /\ data.quiz_id = q
                 /\ data.attempts = stored.attempts
                 /\ Len(data.questions) = Len(stored.questions)
                 /\ \A i \in 1..Len(stored.questions) :
                       /\ DOMAIN data.questions[i] = {"id", "question", "options"}
                       /\ data.questions[i].id = stored.questions[i].id
                       /\ data.questions[i].question = stored.questions[i].question
                       /\ data.questions[i].options = stored.questions[i].options]_vars

\* C23 witness: a quiz has been fetched whose second question has a correct
\* answer that is not even one of its options; the response lists three
\* questions.
C23_Witness ==
    \E r \in Slots :
        /\ req[r].op = "get_quiz" /\ req[r].pc = "done" /\ req[r].resp.code = 200
        /\ Len(req[r].resp.data.questions) = 3
        /\ QuizOf(quizzes, req[r].arg) # NoValue
        /\ QuizOf(quizzes, req[r].arg)[1].questions[2].correct_answer = "E"

\* the inserting step of send_document appends exactly one signature record:
\* status SENT, acknowledged false, no quiz id, quiz_passed false, no
\* completed_at, for the requested document, with a non-empty tracking id
\* that no other stored record has and that the handler goes on with (it is
\* the one the response returns); the records already stored, signatures
\* and quizzes, are unchanged
InsertsOneSentRecord(r) ==
    LET n == Len(signatures)
        new == signatures'[n + 1]
    IN  /\ Len(signatures') = n + 1
        /\ \A i \in 1..n : signatures'[i] = signatures[i]
        /\ quizzes' = quizzes
        /\ new.document_id = req[r].submission.document_id
        /\ new.document_id \in DOCUMENT_MAPPING
        /\ new.status = SENT
        /\ new.acknowledged = FALSE
        /\ new.quiz_id = None
        /\ new.quiz_passed = FALSE
        /\ new.completed_at = NoValue
        /\ new.tracking_id \notin {"", None}
        /\ new.tracking_id = req'[r].arg
        /\ \A i \in 1..n : signatures[i].tracking_id # new.tracking_id

Dispatched(r) ==
    IF req'[r].sent # <<>> /\ req'[r].sent # req[r].sent
    THEN Some(req'[r].sent[Len(req'[r].sent)])
    ELSE NoValue

\* handler r takes the step that persists the change of its operation and
\* goes on to its first notification
Persists(r) == req[r].pc # "notify" /\ req'[r].pc = "notify"

\* C25: a handler goes on to a notification only from the step that persists
\* the change of its operation: create: the SENT record is stored;
\* acknowledge: the new quiz is stored and the signature, if it is still
\* stored, carries its id with status QUIZ_PENDING; submitQuiz: the attempt
\* is counted with its outcome and the signature is COMPLETED or QUIZ_FAILED
\* accordingly.  Notifications change no record, come one per step after the
\* ones already sent, and are: create: signature_request to the receiver;
\* acknowledge: quiz_link to the receiver; submitQuiz that passed: first
\* signature_completed to the receiver, then
\* signature_completed_notification to the sender; submitQuiz that failed:
\* quiz_failed to the receiver.  A handler that answers 200 has sent exactly
\* these payloads, and one that does not has sent none.
C25_NotifyAfterPersistExactKinds ==
    [][\A r \in Slots :
          LET h == req[r]
              g == req'[r]
              e == Dispatched(r)
          IN  /\ Persists(r)
                 => /\ g.sent = <<>>
                    /\ CASE g.op = "send_document" ->
                              LET S == SignatureOf(signatures', g.arg)
                              IN  /\ S # NoValue
                                  /\ S[1].status = SENT
                                  /\ S[1].receiver_email = g.submission.receiver_email
                         [] g.op = "submit_signature" ->
                              LET S == SignatureOf(signatures', g.arg)
                                  Q == QuizOf(quizzes', g.quiz_id)
                              IN  /\ Q # NoValue
                                  /\ Q[1].tracking_id = g.arg
                                  /\ S # NoValue
                                     => /\ S[1].status = QUIZ_PENDING
                                        /\ S[1].quiz_id = g.quiz_id
                                        /\ S[1].receiver_email
                                              = g.signature[1].receiver_email
                         [] g.op = "submit_quiz" ->
                              LET S == TableGet(signatures', "quiz_id", g.arg)
                                  Q == QuizOf(quizzes', g.arg)
                              IN  /\ Q # NoValue
                                  /\ Q[1].attempts > 0
                                  /\ Q[1].passed = g.passed
                                  /\ S # NoValue
                                  /\ S[1].status = IF g.passed THEN COMPLETED
                                                   ELSE QUIZ_FAILED
                                  /\ S[1].receiver_email = g.signature[1].receiver_email
                                  /\ S[1].sender_email = g.signature[1].sender_email
                         [] OTHER -> FALSE
              /\ e # NoValue
                 => /\ g.sent = Append(h.sent, e[1])
                    /\ signatures' = signatures /\ quizzes' = quizzes
                    /\ \/ /\ h.op = "send_document" /\ h.pc = "notify" /\ h.sent = <<>>
                          /\ e[1] = [event_type |-> "signature_request",
                                     to |-> h.submission.receiver_email]
                       \/ /\ h.op = "submit_signature" /\ h.pc = "notify" /\ h.sent = <<>>
                          /\ e[1] = [event_type |-> "quiz_link",
                                     to |-> h.signature[1].receiver_email]
                       \/ /\ h.op = "submit_quiz" /\ h.pc = "notify" /\ h.sent = <<>>
                          /\ h.passed
                          /\ e[1] = [event_type |-> "signature_completed",
                                     to |-> h.signature[1].receiver_email]
                       \/ /\ h.op = "submit_quiz" /\ h.pc = "notify_sender"
                          /\ h.passed
                          /\ h.sent = <<[event_type |-> "signature_completed",
                                         to |-> h.signature[1].receiver_email]>>
                          /\ e[1] = [event_type |-> "signature_completed_notification",
                                     to |-> h.signature[1].sender_email]
                       \/ /\ h.op = "submit_quiz" /\ h.pc = "notify" /\ h.sent = <<>>
                          /\ ~h.passed
                          /\ e[1] = [event_type |-> "quiz_failed",
                                     to |-> h.signature[1].receiver_email]
              /\ (h.pc # "done" /\ g.pc = "done")
                 => LET kinds == [i \in 1..Len(g.sent) |-> g.sent[i].event_type]
                        data == g.resp.data
                    IN  IF g.resp.code # 200 THEN kinds = <<>>
                        ELSE CASE g.op = "send_document" -> kinds = <<"signature_request">>
                               [] g.op = "submit_signature" -> kinds = <<"quiz_link">>
                               [] g.op = "submit_quiz" ->
                                     kinds = IF data.passed
                                             THEN <<"signature_completed",
                                                    "signature_completed_notification">>
                                             ELSE <<"quiz_failed">>
                               [] OTHER -> kinds = <<>>]_vars

\* C25 witness: a passed submission has been answered after both payloads
\* were handed over, the receiver's first, and the signature is COMPLETED.
C25_Witness ==
    \E r \in Slots, i \in 1..Len(signatures) :
        /\ req[r].op = "submit_quiz" /\ req[r].pc = "done"
        /\ req[r].resp.code = 200 /\ req[r].resp.data.passed
        /\ signatures[i].quiz_id = req[r].arg /\ signatures[i].status = COMPLETED
        /\ req[r].sent = <<[event_type |-> "signature_completed",
                            to |-> signatures[i].receiver_email],
                           [event_type |-> "signature_completed_notification",
                            to |-> signatures[i].sender_email]>>
        /\ signatures[i].receiver_email # signatures[i].sender_email

\* C26 (as claimed): acknowledge does not reject acknowledged = false.  For
\* every stored tracking id the handler goes on from its read to its writing
\* step; whatever the generator returns, that step stores one new quiz for
\* this tracking id with no attempt yet and sets on the signature status
\* QUIZ_PENDING, quiz_id = the id of that quiz and acknowledged = false; the
\* answer is 200 with that id.
C26_UnacknowledgedAlwaysGetsQuiz ==
    [][\A r \in Slots :
          /\ \A t \in TrackingInputs, p \in BOOLEAN :
                (SubmitSignatureRead(r, t, FALSE, p)
                 /\ SignatureOf(signatures, t) # NoValue)
                => req'[r].pc = "loaded"
          /\ (Writes(r) /\ ~req[r].submission.acknowledged)
             => LET new == quizzes'[Len(quizzes')]
                    S == SignatureOf(signatures', req[r].arg)
                IN  /\ Len(quizzes') = Len(quizzes) + 1
                    /\ QuizOf(quizzes, new.quiz_id) = NoValue
                    /\ new.quiz_id = req'[r].quiz_id
                    /\ new.tracking_id = req[r].arg
                    /\ new.attempts = 0
                    /\ Len(new.questions) = NumQuestions
                    /\ S # NoValue
                    /\ S[1].status = QUIZ_PENDING
                    /\ S[1].quiz_id = new.quiz_id
                    /\ S[1].acknowledged = FALSE
          /\ (Acknowledges(r) /\ ~req[r].submission.acknowledged)
             => req'[r].resp = Ok([quiz_id |-> req[r].quiz_id])]_vars

\* the status a signature has when its quiz is in this state
StatusFor(quiz) ==
    IF quiz.attempts = 0 THEN QUIZ_PENDING
    ELSE IF quiz.passed THEN COMPLETED ELSE QUIZ_FAILED

\* every signature whose quiz is stored has the status of that quiz's state
StatusFollowsQuiz ==
    \A i \in 1..Len(signatures) :
        LET Q == QuizOf(quizzes, signatures[i].quiz_id)
        IN  (signatures[i].quiz_id # None /\ Q # NoValue)
            => signatures[i].status = StatusFor(Q[1])

\* a graded submission sets passed to its own outcome, whatever it was before
PassedIsLatestOutcome ==
    \A r \in Slots :
        Grades(r)
        => /\ QuizOf(quizzes', req'[r].arg) # NoValue
           /\ QuizOf(quizzes', req'[r].arg)[1].passed
                 = AllCorrect(QuizOf(quizzes, req'[r].arg)[1].questions,
                              req'[r].submission)

\* C27: in every reachable state, a signature whose quiz_id names a stored
\* quiz Q has the status of Q's most recent attempt: QUIZ_PENDING when Q has
\* no attempt, COMPLETED when it has one and Q.passed, QUIZ_FAILED when it has
\* one and not Q.passed; and every submission sets Q.passed to its own
\* outcome, whatever the earlier ones were.
C27_StatusReflectsLatestAttempt ==
    []StatusFollowsQuiz /\ [][PassedIsLatestOutcome]_vars

\* C27 witness: two submissions to one quiz are in flight together, the one
\* that passed and the one that failed, both at their notification: the quiz
\* has two attempts, the last of them at the very time of the first, passed
\* is false, and the signature, completed once, is QUIZ_FAILED.
C27_Witness ==
    \E r \in Slots, o \in Slots, i \in 1..Len(signatures), k \in 1..Len(quizzes) :
        /\ r # o
        /\ req[r].op = "submit_quiz" /\ req[r].pc = "notify" /\ req[r].passed
        /\ req[o].op = "submit_quiz" /\ req[o].pc = "notify" /\ ~req[o].passed
        /\ req[r].arg = quizzes[k].quiz_id /\ req[o].arg = quizzes[k].quiz_id
        /\ signatures[i].quiz_id = quizzes[k].quiz_id
        /\ quizzes[k].attempts = 2 /\ ~quizzes[k].passed
        /\ signatures[i].completed_at = quizzes[k].last_attempt
        /\ signatures[i].status = QUIZ_FAILED

\* C28: in every reachable state, however create, acknowledge, submitQuiz,
\* clear-all and the age-based purge interleave, every signature with a quiz
\* id refers to a quiz that is in the store, and no two signatures have the
\* same quiz id.  (A stored quiz need not be referenced.)
C28_SignatureRefersToStoredQuiz ==
    /\ \A i \in 1..Len(signatures) :
          signatures[i].quiz_id # None
          => QuizOf(quizzes, signatures[i].quiz_id) # NoValue
    /\ \A i, j \in 1..Len(signatures) :
          (i # j /\ signatures[i].quiz_id # None)
          => signatures[i].quiz_id # signatures[j].quiz_id

\* C28 witness: an age-based purge has just removed a signature and kept the
\* quiz made for it; the signature that is left, created exactly at the
\* cutoff, refers to another stored quiz, which was created at the same time
\* as that signature.
C28_Witness ==
    \E r \in Slots, i \in 1..Len(signatures), k \in 1..Len(quizzes) :
        /\ req[r].op = "clear_old_data" /\ req[r].pc = "done"
        /\ req[r].resp.data.signatures_cleared = 1
        /\ signatures[i].quiz_id # None
        /\ signatures[i].created_at = req[r].resp.data.cutoff_date
        /\ QuizOf(quizzes, signatures[i].quiz_id) # NoValue
        /\ QuizOf(quizzes, signatures[i].quiz_id)[1].created_at
              = signatures[i].created_at
        /\ quizzes[k].quiz_id # signatures[i].quiz_id
        /\ SignatureOf(signatures, quizzes[k].tracking_id) = NoValue

\* C29 (as claimed): in every reachable state a signature's quiz_passed is
\* true if and only if its status is COMPLETED.
C29_PassedFlagIffCompleted ==
    \A i \in 1..Len(signatures) :
        signatures[i].quiz_passed <=> (signatures[i].status = COMPLETED)

\* the records a and b are equal except, possibly, in these fields
SameExcept(a, b, fields) ==
    /\ DOMAIN a = DOMAIN b
    /\ \A k \in DOMAIN a \ fields : a[k] = b[k]

\* C30: the frame of submitQuiz.  The step that grades a submission to quiz Q
\* keeps every record in its place and changes at most attempts, passed,
\* last_attempt and last_score of Q and status, quiz_passed, completed_at and
\* updated_at of the signatures whose quiz_id is Q; every other quiz, every
\* signature with another quiz_id (also the one Q was made for, once it
\* points to a newer quiz) and Q's questions, tracking_id and created_at are
\* unchanged; the other steps of the handler, and a submission that finds no
\* quiz, change no record.
C30_SubmitQuizFrame ==
    [][\A r \in Slots :
          /\ Grades(r)
             => LET q == req'[r].arg
                IN  /\ Len(quizzes') = Len(quizzes)
                    /\ Len(signatures') = Len(signatures)
                    /\ \A k \in 1..Len(quizzes) :
                          IF quizzes[k].quiz_id = q
                          THEN SameExcept(quizzes'[k], quizzes[k],
                                   {"attempts", "passed", "last_attempt", "last_score"})
                          ELSE quizzes'[k] = quizzes[k]
                    /\ \A i \in 1..Len(signatures) :
                          IF signatures[i].quiz_id = q
                          THEN SameExcept(signatures'[i], signatures[i],
                                   {"status", "quiz_passed", "completed_at", "updated_at"})
                          ELSE signatures'[i] = signatures[i]
          /\ (req'[r].op = "submit_quiz" /\ req'[r] # req[r] /\ ~Grades(r))
             => signatures' = signatures /\ quizzes' = quizzes]_vars

\* C30 witness: a submission to a quiz that a re-acknowledge has replaced has
\* been graded: the attempt is counted on that quiz, and the signature it was
\* made for, which points to the newer quiz, is still QUIZ_PENDING.
C30_Witness ==
    \E r \in Slots, i \in 1..Len(signatures), k \in 1..Len(quizzes) :
        /\ req[r].op = "submit_quiz" /\ req[r].pc = "done"
        /\ quizzes[k].quiz_id = req[r].arg
        /\ quizzes[k].attempts = 1 /\ quizzes[k].passed
        /\ signatures[i].tracking_id = quizzes[k].tracking_id
        /\ signatures[i].quiz_id \notin {None, quizzes[k].quiz_id}
        /\ signatures[i].status = QUIZ_PENDING
        /\ signatures[i].quiz_passed = FALSE

\* every stored signature has one of the four statuses that are written
StoredStatuses ==
    \A i \in 1..Len(signatures) :
        /\ signatures[i].status # ACKNOWLEDGED
        /\ signatures[i].status \in {SENT, QUIZ_PENDING, QUIZ_FAILED, COMPLETED}

\* the writing step of an acknowledge leaves its signature QUIZ_PENDING
AcknowledgeGoesToQuizPending ==
    \A r \in Slots :
        (Writes(r) /\ SignatureOf(signatures, req[r].arg) # NoValue)
        => /\ SignatureOf(signatures', req[r].arg) # NoValue
           /\ SignatureOf(signatures', req[r].arg)[1].status = QUIZ_PENDING

\* C31: no signature record has the status ACKNOWLEDGED in any reachable
\* state: the only statuses stored are SENT, QUIZ_PENDING, QUIZ_FAILED and
\* COMPLETED, and the step of acknowledge that writes takes the record to
\* QUIZ_PENDING at once, from whatever status it had.
C31_AcknowledgedIsNeverStored ==
    []StoredStatuses /\ [][AcknowledgeGoesToQuizPending]_vars

\* C31 witness: an acknowledge with acknowledged = false has just written,
\* at the very time the record was created: the record it read as SENT is
\* stored as QUIZ_PENDING, and the handler has not answered yet, while a
\* second acknowledge of the record is between its read and its writes.
C31_Witness ==
    \E r \in Slots, o \in Slots :
        /\ r # o
        /\ req[r].op = "submit_signature" /\ req[r].pc = "notify"
        /\ ~req[r].submission.acknowledged
        /\ req[r].signature # NoValue
        /\ req[r].signature[1].status = SENT
        /\ SignatureOf(signatures, req[r].arg) # NoValue
        /\ SignatureOf(signatures, req[r].arg)[1].status = QUIZ_PENDING
        /\ SignatureOf(signatures, req[r].arg)[1].updated_at
              = SignatureOf(signatures, req[r].arg)[1].created_at
        /\ req[o].op = "submit_signature" /\ req[o].pc = "loaded"
        /\ req[o].arg = req[r].arg

\* C32 (as claimed): backoff waits occur only between attempts: a call of the
\* notifier that has returned has waited at most once less than it has
\* posted, and it never waits after its third post.
C32_WaitsOnlyBetweenAttempts ==
    \A r \in Slots :
        req[r].op = "send_webhook"
        => /\ req[r].pc = "done" => req[r].sleeps <= req[r].posts - 1
           /\ req[r].pc = "sleep" => req[r].posts < max_retries

====
